---- MODULE Spec2Model ----
(***************************************************************************)
(* OverlayX: the plugin pipeline of src/overlayx.py and src/plugins/*.py.  *)
(*                                                                         *)
(* State: the parsed AppConfig, the PluginManager registry (an insertion-  *)
(* ordered dict, kept as a sequence of [id, plugin] entries), the position *)
(* of OverlayX.run, the keyboard listener's running flag and the result of *)
(* the last PluginManager.process_frame call.                              *)
(***************************************************************************)
EXTENDS Integers, Sequences, FiniteSets, TLC

VARIABLES
    app_config,   \* OverlayX.config (AppConfig after from_yaml/_parse_config)
    plugins,      \* PluginManager.plugins
    pc,           \* position inside OverlayX.run
    idx,          \* loop index of initialize_plugins over plugin_instances
    init_result,  \* what initialize_plugins returned: "none", "true", "false", "raised"
    kbd,          \* KeyboardHandler: "idle", "running" (start called), "stopped"
    running,      \* OverlayX.running
    paused,       \* OverlayX.paused
    frames,       \* number of frames sent to the virtual camera
    last_run,     \* the last PluginManager.process_frame call (input, calls, output)
                  \* and whether the last cap.read() succeeded
    exit_path,    \* how run() ended
    reg_log,      \* the register_plugin calls made so far (requested, assigned, in use before)
    cap,          \* the cv2.VideoCapture of run(): "none", "opened", "not_opened", "released"
    mgr,          \* PluginManager: filter_plugins, current_filter_index, the last call made on it
    keyboard,     \* KeyboardHandler: key_queue, lock, running, the listener thread, the terminal
    tail,         \* one TailPlugin, the file it follows and the wall clock
    clock,        \* one ClockPlugin and the time it last rendered
    cpu,          \* one CPUPlugin, the wall clock and its last process_frame call
    overlay,      \* one OverlayPlugin with a loaded image and its last process_frame call
    yaml          \* the mapping read from the YAML file, handed to _parse_config

run_vars == <<app_config, plugins, pc, idx, init_result, kbd, running, paused,
              frames, last_run, exit_path, reg_log, cap>>
comp_vars == <<mgr, keyboard, tail, clock, cpu, overlay, yaml>>
vars == <<run_vars, comp_vars>>

\* ------------------------------------------------------------------ bounds
MaxPlugins == 2
MaxFrames == 2
MaxRegs == 4

\* --------------------------------------------------------------------- ids
\* An id is a string of the form base(_N)*: its base and the numeric suffixes.
Id(base) == [base |-> base, sfx |-> <<>>]

\* f"{original_id}_{counter}"
Suffixed(id, n) == [id EXCEPT !.sfx = Append(@, n)]

\* ------------------------------------------------------- plugin option maps
\* A plugin's option mapping (self.config). Every option is "absent" or a
\* value; kind is "mapping" for a dict and "scalar" for a truthy non-dict
\* value, which only the legacy plugins.config mapping can supply.
\* 'shortcuts' is the (action, key) pairs of the mapping in its order, <<>>
\* when absent or empty. 'default_tlp' is a YAML value: a string, a value of
\* another type, or absent.
Str(text) == [kind |-> "str", text |-> text]
NonStr(text) == [kind |-> "other", text |-> text]
Absent == [kind |-> "absent", text |-> ""]

NoOptions ==
    [kind |-> "mapping", enabled |-> "absent", show_by_default |-> "absent",
     show |-> "absent", position |-> "absent", font_size |-> "absent",
     file |-> "absent", shortcuts |-> <<>>, default_tlp |-> Absent]

\* config.get(key, default) for a boolean option
Opt(value, default) == IF value = "absent" THEN default ELSE value = "true"

\* ------------------------------------------------------------ plugin objects
\* Plugin.__init__ followed by the subclass __init__
NewPlugin(type, config) ==
    [name |-> type,
     config |-> config,
     enabled |-> IF type = "overlay" THEN TRUE
                 ELSE Opt(config.show_by_default, TRUE),
     show |-> TRUE,
     position |-> "default",
     font_size |-> "default",
     overlay_image |-> FALSE,
     shortcuts |-> config.shortcuts,
     tlp_level |-> "CLEAR",
     init_calls |-> 0,
     init_state |-> "new",
     cleanup_calls |-> 0,
     src |-> 0]

\* The constructor reads config.get(...) when config is truthy: a non-dict raises.
ConstructorRaises(config) == config.kind # "mapping"

\* What a call of initialize leaves behind: the plugin and how the call ended
\* ("ok": returned True, "false": returned False, "raised": an exception).
InitReturn(p, outcome) == [plugin |-> p, outcome |-> outcome]

\* The attributes of the app_config object beyond the dataclass fields, as a
\* function from the names present to their values: AppConfig declares none
\* of clock_position, clock_font_size, show_clock, cpu_position,
\* info_font_size, show_cpu, show_tlp, overlay_enabled
NoAttrs == [n \in {} |-> "absent"]

\* hasattr(app_config, attr)
HasAttr(cfg, attr) == attr \in DOMAIN cfg.attrs

ResolveGlobalFirst(option, cfg, attr, default) ==
    IF HasAttr(cfg, attr) THEN cfg.attrs[attr]
    ELSE IF option # "absent" THEN option
    ELSE default

\* if key in self.config: the option; elif hasattr(app_config, attr): the
\* attribute; otherwise the value the constructor set
Resolve(option, cfg, attr, default) ==
    IF option # "absent" THEN option
    ELSE IF HasAttr(cfg, attr) THEN cfg.attrs[attr]
    ELSE default

\* The visibility precedence of clock, cpu and tlp: 'show', then
\* 'show_by_default', then the app_config attribute, then True.
ResolveShow(config, cfg, attr) ==
    IF config.show # "absent" THEN config.show = "true"
    ELSE Resolve(config.show_by_default, cfg, attr, "true") = "true"

\* The tail plugin reads 'show' and 'show_by_default' only
TailResolveShow(config) ==
    IF config.show # "absent" THEN config.show = "true"
    ELSE Opt(config.show_by_default, TRUE)

\* tuple(self.config['position']) raises TypeError on a non-iterable value.
ClockInitialize(p, cfg) ==
    IF p.config.position = "bad" THEN InitReturn(p, "raised")
    ELSE InitReturn(
             [p EXCEPT !.position = Resolve(p.config.position, cfg, "clock_position", @),
                       !.font_size = Resolve(p.config.font_size, cfg,
                                             "clock_font_size", @),
                       !.show = ResolveShow(p.config, cfg, "show_clock")], "ok")

CPUInitialize(p, cfg) ==
    IF p.config.position = "bad" THEN InitReturn(p, "raised")
    ELSE InitReturn(
             [p EXCEPT !.position = Resolve(p.config.position, cfg, "cpu_position", @),
                       !.font_size = Resolve(p.config.font_size, cfg,
                                             "info_font_size", @),
                       !.show = ResolveShow(p.config, cfg, "show_cpu")], "ok")

\* TLPPlugin.TLP_SHORTCUTS, as (action, key) pairs in table order
TLP_SHORTCUTS ==
    << <<"red", "r">>, <<"amber", "a">>, <<"green", "g">>, <<"clear", "l">> >>

\* str.upper() on the level names the model uses
Upper(text) ==
    CASE text = "red" -> "RED"
      [] text = "Amber" -> "AMBER"
      [] text = "green" -> "GREEN"
      [] text = "clear" -> "CLEAR"
      [] text = "bogus" -> "BOGUS"
      [] OTHER -> text

TLPLevels == {"RED", "AMBER", "GREEN", "CLEAR"}

\* A string is upper-cased, any other value is replaced by CLEAR; a level
\* that is not one of the four is replaced by CLEAR.
_validate_tlp_level(level) ==
    LET level_upper == IF level.kind = "str" THEN Upper(level.text) ELSE "CLEAR"
    IN  IF level_upper \in TLPLevels THEN level_upper ELSE "CLEAR"

\* TLPPlugin.set_tlp_level: the level validated is stored when it differs
\* from the current one, which is what the call reports
SetLevelIfValid(p, level) ==
    IF level.kind = "str" /\ Upper(level.text) \in TLPLevels
          /\ Upper(level.text) # p.tlp_level
    THEN [plugin |-> [p EXCEPT !.tlp_level = Upper(level.text)], changed |-> TRUE]
    ELSE [plugin |-> p, changed |-> FALSE]

set_tlp_level(p, level) ==
    LET new_level == _validate_tlp_level(level)
    IN  IF new_level # p.tlp_level
        THEN [plugin |-> [p EXCEPT !.tlp_level = new_level], changed |-> TRUE]
        ELSE [plugin |-> p, changed |-> FALSE]

\* tlp_level from 'default_tlp' (default CLEAR); the default shortcut table
\* is installed when the plugin has no shortcuts of its own.
TLPInitialize(p, cfg) ==
    IF p.config.position = "bad" THEN InitReturn(p, "raised")
    ELSE InitReturn([p EXCEPT !.tlp_level =
                                  _validate_tlp_level(IF p.config.default_tlp = Absent
                                                      THEN Str("CLEAR")
                                                      ELSE p.config.default_tlp),
                              !.show = ResolveShow(p.config, cfg, "show_tlp"),
                              !.shortcuts = IF p.shortcuts = <<>> THEN TLP_SHORTCUTS
                                            ELSE p.shortcuts], "ok")

\* The file the overlay loads: 'file', default moldura.png, and its state on disk.
OverlayFile(p, cfg) ==
    IF p.config.file = "absent" THEN cfg.moldura
    ELSE IF p.config.file = "empty" THEN "missing"
    ELSE p.config.file

\* 'enabled' in config, then 'show_by_default', then the app_config attribute
\* overlay_enabled, then True.
OverlayResolveEnabled(p, cfg) ==
    IF p.config.enabled # "absent" THEN p.config.enabled = "true"
    ELSE Resolve(p.config.show_by_default, cfg, "overlay_enabled", "true") = "true"

OverlayInitialize(p, cfg) ==
    LET q == [p EXCEPT !.enabled = OverlayResolveEnabled(p, cfg)]
        f == OverlayFile(p, cfg)
    IN  IF f = "corrupt" THEN InitReturn(q, "raised")
        ELSE InitReturn([q EXCEPT !.overlay_image = (f = "good")], "ok")

CropInitialize(p, cfg) == InitReturn(p, "ok")

\* Returns False without 'file'; otherwise 'show' and 'show_by_default' only
\* override the constructor's show when present.
TailInitialize(p, cfg) ==
    IF p.config.file \in {"absent", "empty"} THEN InitReturn(p, "false")
    ELSE IF p.config.position = "bad" THEN InitReturn(p, "raised")
    ELSE InitReturn([p EXCEPT !.show = TailResolveShow(p.config)], "ok")

\* plugin.initialize(app_config), dispatched on the class of the plugin; the
\* call and its outcome are recorded on the plugin.
PluginInitialize(p, cfg) ==
    LET r == CASE p.name = "clock" -> ClockInitialize(p, cfg)
               [] p.name = "cpu" -> CPUInitialize(p, cfg)
               [] p.name = "tlp" -> TLPInitialize(p, cfg)
               [] p.name = "overlay" -> OverlayInitialize(p, cfg)
               [] p.name = "crop" -> CropInitialize(p, cfg)
               [] p.name = "tail" -> TailInitialize(p, cfg)
    IN  InitReturn([r.plugin EXCEPT !.init_calls = @ + 1,
                                    !.init_state = r.outcome],
                   r.outcome)

\* ------------------------------------------------------------- the registry
\* PluginManager.PLUGIN_CLASSES
PLUGIN_CLASSES == {"clock", "cpu", "overlay", "crop", "tlp"}

\* The classes plugins/__init__.py exports
PluginExports == {"clock", "cpu", "overlay", "crop", "tlp", "tail"}

Keys(reg) == {reg[k].id : k \in 1..Len(reg)}

\* The while loop of register_plugin: the first of original_1, original_2, ...
\* that is not a key of the registry.
RECURSIVE NextFreeId(_, _, _)
NextFreeId(ids, original_id, counter) ==
    IF Suffixed(original_id, counter) \in ids
    THEN NextFreeId(ids, original_id, counter + 1)
    ELSE Suffixed(original_id, counter)

\* A faulty variant that tries the suffix _1 only
UniqueIdOneSuffix(ids, instance_id) ==
    IF instance_id \in ids THEN Suffixed(instance_id, 1) ELSE instance_id

\* The id register_plugin stores a plugin under
UniqueId(ids, instance_id) ==
    IF instance_id \in ids THEN NextFreeId(ids, instance_id, 1) ELSE instance_id

\* self.plugins[instance_id] = plugin on an insertion-ordered dict
DictSet(reg, id, plugin) ==
    IF id \in Keys(reg)
    THEN [k \in 1..Len(reg) |->
            IF reg[k].id = id THEN [id |-> id, plugin |-> plugin] ELSE reg[k]]
    ELSE Append(reg, [id |-> id, plugin |-> plugin])

\* instance_id None stands for "not given": the plugin's own name is used.
NoneId == Id("")

RequestedId(plugin, instance_id) ==
    IF instance_id = NoneId THEN Id(plugin.name) ELSE instance_id

register_plugin(reg, plugin, instance_id) ==
    DictSet(reg, UniqueId(Keys(reg), RequestedId(plugin, instance_id)), plugin)

\* ------------------------------------------------------------ configuration
\* A raw entry of the 'plugins' list: its 'type' ("" when missing), its 'name'
\* (has_name tells whether the key is present) and the rest of the mapping,
\* the reserved key 'enabled' included.
RawEntry(type, has_name, name, options) ==
    [type |-> type, has_name |-> has_name, name |-> name, options |-> options]

\* One descriptor of AppConfig._parse_plugin_instances
ParseEntry(e) ==
    [type |-> e.type,
     id |-> IF e.has_name THEN e.name ELSE Id(e.type),
     enabled |-> Opt(e.options.enabled, TRUE),
     config |-> [e.options EXCEPT !.enabled = "absent"]]

RECURSIVE ParseEntriesUntilUntyped(_)
ParseEntriesUntilUntyped(entries) ==
    IF entries = <<>> THEN <<>>
    ELSE IF Head(entries).type = "" THEN <<>>
    ELSE <<ParseEntry(Head(entries))>> \o ParseEntriesUntilUntyped(Tail(entries))

RECURSIVE ParseEntries(_)
ParseEntries(entries) ==
    IF entries = <<>> THEN <<>>
    ELSE IF Head(entries).type = "" THEN ParseEntries(Tail(entries))
    ELSE <<ParseEntry(Head(entries))>> \o ParseEntries(Tail(entries))

\* data.get('plugins', {}) is a list, a mapping or absent
_parse_plugin_instances(raw) ==
    IF raw.shape = "list" THEN ParseEntries(raw.entries) ELSE <<>>

\* AppConfig._parse_config: the descriptors and the raw 'plugins' value kept
\* for the legacy path (its shape and its 'config' sub-mapping).
_parse_config(raw) ==
    [plugin_instances |-> _parse_plugin_instances(raw),
     plugins_shape |-> raw.shape,
     legacy |-> raw.legacy,
     fit |-> raw.fit,
     moldura |-> raw.moldura,
     attrs |-> NoAttrs]

\* AppConfig.keyboard_shortcuts defaults
QuitKey == "q"
PauseKey == " "
NextFilterKey == "n"
PrevFilterKey == "b"

\* AppConfig.width, AppConfig.height as the output size, and the sizes the
\* camera may deliver (smaller and larger than the output).
OutSize == <<4, 2>>
CamSizes == {<<2, 2>>, <<8, 4>>}

\* ----------------------------------------------------- keyboard dispatching
HandleReturn(p, handled) == [plugin |-> p, handled |-> handled]

\* handle_shortcut of clock, cpu, tail (toggle flips show), tlp (toggle and
\* the level actions) and of the base class, which crop inherits (toggle
\* flips enabled).
HandleShortcutHides(p, action) ==
    IF action # "toggle" THEN HandleReturn(p, FALSE)
    ELSE IF p.name \in {"clock", "cpu", "tail", "tlp"}
         THEN HandleReturn([p EXCEPT !.show = FALSE], TRUE)
    ELSE HandleReturn([p EXCEPT !.enabled = FALSE], TRUE)

SameCase(text) == text

\* str.lower() on the action names the model uses
Lower(text) ==
    CASE text = "RED" -> "red"
      [] text = "Amber" -> "amber"
      [] OTHER -> text

\* The tlp plugin compares the action with 'toggle' as given and with the
\* level names in lower case
handle_shortcut(p, action) ==
    IF p.name \in {"clock", "cpu", "tail"} THEN
        IF action = "toggle" THEN HandleReturn([p EXCEPT !.show = ~@], TRUE)
        ELSE HandleReturn(p, FALSE)
    ELSE IF p.name = "tlp" THEN
        LET action_lower == Lower(action)
        IN  IF action = "toggle" THEN HandleReturn([p EXCEPT !.show = ~@], TRUE)
            ELSE IF action_lower = "red"
                 THEN HandleReturn([p EXCEPT !.tlp_level = "RED"], TRUE)
            ELSE IF action_lower = "amber"
                 THEN HandleReturn([p EXCEPT !.tlp_level = "AMBER"], TRUE)
            ELSE IF action_lower = "green"
                 THEN HandleReturn([p EXCEPT !.tlp_level = "GREEN"], TRUE)
            ELSE IF action_lower = "clear"
                 THEN HandleReturn([p EXCEPT !.tlp_level = "CLEAR"], TRUE)
            ELSE HandleReturn(p, FALSE)
    ELSE
        IF action = "toggle" THEN HandleReturn([p EXCEPT !.enabled = ~@], TRUE)
        ELSE HandleReturn(p, FALSE)

\* Plugin.on_keypress: the first action of the table bound to the key is
\* dispatched to handle_shortcut.
RECURSIVE BaseOnKeypress(_, _, _)
BaseOnKeypress(p, table, key) ==
    IF table = <<>> THEN HandleReturn(p, FALSE)
    ELSE IF Head(table)[2] = key THEN handle_shortcut(p, Head(table)[1])
    ELSE BaseOnKeypress(p, Tail(table), key)

\* OverlayPlugin.on_keypress: only a 'toggle' entry bound to the key acts;
\* other entries bound to the key are passed over.
RECURSIVE OverlayOnKeypress(_, _, _)
OverlayOnKeypress(p, table, key) ==
    IF table = <<>> THEN HandleReturn(p, FALSE)
    ELSE IF Head(table)[2] = key /\ Head(table)[1] = "toggle"
         THEN HandleReturn([p EXCEPT !.enabled = ~@], TRUE)
    ELSE OverlayOnKeypress(p, Tail(table), key)

PluginOnKeypress(p, key) ==
    IF p.name = "overlay" THEN OverlayOnKeypress(p, p.shortcuts, key)
    ELSE BaseOnKeypress(p, p.shortcuts, key)

\* AppConfig.keyboard_shortcuts as a table of the four global bindings
DefaultKeys ==
    [quit |-> QuitKey, pause |-> PauseKey, next_filter |-> NextFilterKey,
     prev_filter |-> PrevFilterKey]

\* The loop of PluginManager.on_keypress from entry k on: acc carries the
\* registry, the ids called so far in call order and what each call returned.
RECURSIVE DispatchStopAtFirstHandled(_, _, _)
DispatchStopAtFirstHandled(acc, key, k) ==
    IF k > Len(acc.plugins) THEN acc
    ELSE LET r == PluginOnKeypress(acc.plugins[k].plugin, key)
             a == [plugins |-> [acc.plugins EXCEPT ![k].plugin = r.plugin],
                   order |-> Append(acc.order, acc.plugins[k].id),
                   returned |-> Append(acc.returned, r.handled)]
         IN  IF r.handled THEN a ELSE DispatchStopAtFirstHandled(a, key, k + 1)

RECURSIVE DispatchKey(_, _, _)
DispatchKey(acc, key, k) ==
    IF k > Len(acc.plugins) THEN acc
    ELSE LET r == PluginOnKeypress(acc.plugins[k].plugin, key)
         IN  DispatchKey([plugins |-> [acc.plugins EXCEPT ![k].plugin = r.plugin],
                          order |-> Append(acc.order, acc.plugins[k].id),
                          returned |-> Append(acc.returned, r.handled)],
                         key, k + 1)

\* (current_filter_index + 1) % len(filter_plugins) and
\* (current_filter_index - 1) % len(filter_plugins), Python's % taking the
\* sign of the divisor
NextIndex(index, count) == (index + 1) % count

PrevIndexClamped(index, count) == IF index = 0 THEN 0 ELSE index - 1

PrevIndex(index, count) == (index - 1) % count

RotatesWithoutFilters(keys, filter_count, key) ==
    key \in {keys.next_filter, keys.prev_filter}

\* The key is one of the two filter bindings and 'if self.filter_plugins'
\* holds: the index is rotated and handled is set
Rotates(keys, filter_count, key) ==
    filter_count > 0 /\ key \in {keys.next_filter, keys.prev_filter}

\* PluginManager.on_keypress(key) on a manager with filter_count filter
\* plugins: the registry and filter index it leaves, what it returns
\* ("quit", or the handled flag) and the plugin calls it made.
on_keypress(reg, keys, filter_count, index, key) ==
    LET d == DispatchKey([plugins |-> reg, order |-> <<>>, returned |-> <<>>], key, 1)
        handled == \E k \in 1..Len(d.returned) : d.returned[k]
        rotate == filter_count > 0
        i1 == IF key = keys.next_filter /\ rotate
              THEN NextIndex(index, filter_count) ELSE index
        i2 == IF key = keys.prev_filter /\ rotate
              THEN PrevIndex(i1, filter_count) ELSE i1
        h2 == handled \/ Rotates(keys, filter_count, key)
    IN  IF key = keys.quit
        THEN [plugins |-> d.plugins, index |-> index, result |-> "quit",
              order |-> d.order, returned |-> d.returned]
        ELSE [plugins |-> d.plugins, index |-> i2,
              result |-> IF h2 THEN "handled" ELSE "not_handled",
              order |-> d.order, returned |-> d.returned]

\* The call made by the loop of run(): the bindings of the configuration,
\* and no filter plugin (nothing in run() calls register_filter).
ManagerOnKeypress(reg, keys, key) ==
    LET r == on_keypress(reg, keys, 0, 0, key)
    IN  [plugins |-> r.plugins, result |-> r.result]

\* ------------------------------------------------------------------- frames
\* An image: its size and what has been drawn on it, in drawing order.
Frame(size) == [size |-> size, marks |-> <<>>]
NoFrame == Frame(<<0, 0>>)

\* The images of one process_frame call: objs holds every image object, cur
\* is the one the variable 'frame' refers to, draw the one the shared
\* ImageDraw is bound to (0: none yet), calls the plugins invoked so far and
\* io, for each of these calls, the image it was given and the one it returned.
Pipe(frame) ==
    [objs |-> <<frame>>, cur |-> 1, draw |-> 0, calls |-> <<>>, io |-> <<>>]

DrawOn(s, k, mark) == [s EXCEPT !.objs[k].marks = Append(@, mark)]

\* ImageOps.fit / Image.convert: a new image object becomes the frame
NewObject(s, img) == [s EXCEPT !.objs = Append(@, img), !.cur = Len(s.objs) + 1]

\* CropPlugin.process_frame: fits to the target size, whatever the flags
CropProcess(p, s) ==
    NewObject(s, [size |-> OutSize, marks |-> s.objs[s.cur].marks])

\* ClockPlugin, CPUPlugin, TLPPlugin: gated by show, draw with the shared draw
DrawProcess(p, s) ==
    IF ~p.show THEN s ELSE DrawOn(s, s.draw, p.name)

\* OverlayPlugin.process_frame: gated by enabled and the loaded image, pastes
\* on the frame it is given
OverlayPastesUnloaded(p, s) ==
    IF ~p.enabled THEN s ELSE DrawOn(s, s.cur, p.name)

OverlayProcess(p, s) ==
    IF ~p.enabled \/ ~p.overlay_image THEN s ELSE DrawOn(s, s.cur, p.name)

\* TailPlugin.process_frame: gated by show; convert('RGBA') makes a new image,
\* which is drawn on with a draw of its own and returned
TailProcess(p, s) ==
    IF ~p.show THEN s
    ELSE LET t == NewObject(s, s.objs[s.cur]) IN DrawOn(t, t.cur, p.name)

\* plugin.process_frame(frame, draw) of the entry e of the registry
PluginProcess(e, s) ==
    LET t == [s EXCEPT !.calls = Append(@, e.id)]
        p == e.plugin
        r == CASE p.name = "crop" -> CropProcess(p, t)
               [] p.name = "overlay" -> OverlayProcess(p, t)
               [] p.name = "tail" -> TailProcess(p, t)
               [] OTHER -> DrawProcess(p, t)
    IN  [r EXCEPT !.io = Append(@, <<s.cur, r.cur>>)]

\* The first entry whose plugin reports the name 'crop' (0: none)
RECURSIVE FindCrop(_, _)
FindCrop(reg, k) ==
    IF k > Len(reg) THEN 0
    ELSE IF reg[k].plugin.name = "crop" THEN k
    ELSE FindCrop(reg, k + 1)

\* The loop over self.plugins.items(): the crop entry found and the entries
\* that are not enabled are skipped
RECURSIVE ApplyPluginsBackwards(_, _, _, _)
ApplyPluginsBackwards(reg, k, crop, s) ==
    IF k > Len(reg) THEN s
    ELSE LET j == Len(reg) + 1 - k
         IN  IF j = crop \/ ~reg[j].plugin.enabled
             THEN ApplyPluginsBackwards(reg, k + 1, crop, s)
             ELSE ApplyPluginsBackwards(reg, k + 1, crop, PluginProcess(reg[j], s))

RECURSIVE ApplyPlugins(_, _, _, _)
ApplyPlugins(reg, k, crop, s) ==
    IF k > Len(reg) THEN s
    ELSE IF k = crop \/ ~reg[k].plugin.enabled THEN ApplyPlugins(reg, k + 1, crop, s)
    ELSE ApplyPlugins(reg, k + 1, crop, PluginProcess(reg[k], s))

\* PluginManager.process_frame
process_frame(reg, frame) ==
    LET crop == FindCrop(reg, 1)
        s0 == Pipe(frame)
        s1 == IF crop # 0 THEN PluginProcess(reg[crop], s0) ELSE s0
        s2 == [s1 EXCEPT !.draw = s1.cur]
    IN  ApplyPlugins(reg, 1, crop, s2)

\* The resize of run() before the pipeline: ImageOps.fit when 'fit' is set or
\* the captured image exceeds the output in width or height
PreFit(size, fit) ==
    IF fit \/ size[1] > OutSize[1] \/ size[2] > OutSize[2] THEN OutSize ELSE size

\* ---------------------------------------------------- modelled configurations
Options(enabled, show_by_default, position, file) ==
    [NoOptions EXCEPT !.enabled = enabled, !.show_by_default = show_by_default,
                      !.position = position, !.file = file]

Scalar == [NoOptions EXCEPT !.kind = "scalar"]

\* The entries a 'plugins' list is drawn from
EntryPool ==
    { RawEntry("clock", FALSE, NoneId, NoOptions),
      RawEntry("clock", FALSE, NoneId, Options("false", "absent", "absent", "absent")),
      RawEntry("clock", TRUE, Suffixed(Id("clock"), 1), NoOptions),
      RawEntry("clock", FALSE, NoneId, Options("absent", "absent", "bad", "absent")),
      RawEntry("cpu", FALSE, NoneId, NoOptions),
      RawEntry("tlp", FALSE, NoneId, NoOptions),
      RawEntry("overlay", FALSE, NoneId, Options("absent", "absent", "absent", "good")),
      RawEntry("overlay", FALSE, NoneId, Options("false", "absent", "absent", "good")),
      RawEntry("overlay", FALSE, NoneId, Options("absent", "absent", "absent", "missing")),
      RawEntry("crop", FALSE, NoneId, NoOptions),
      RawEntry("crop", FALSE, NoneId, Options("false", "absent", "absent", "absent")),
      RawEntry("tail", FALSE, NoneId, Options("absent", "absent", "absent", "good")),
      RawEntry("bogus", TRUE, Id("clock"), NoOptions),
      RawEntry("", FALSE, NoneId, NoOptions) }

NoLegacy == [clock |-> NoOptions, cpu |-> NoOptions, frame |-> NoOptions,
             overlay |-> NoOptions]

\* plugins: a list of at most MaxPlugins entries
ListConfigs ==
    { [shape |-> "list", entries |-> es, legacy |-> NoLegacy, fit |-> FALSE,
       moldura |-> "missing"] :
        es \in UNION {[1..n -> EntryPool] : n \in 0..MaxPlugins} }

\* plugins: absent, or a mapping with a 'config' sub-mapping (legacy format)
LegacyPool ==
    { NoLegacy,
      [NoLegacy EXCEPT !.clock = Options("absent", "absent", "bad", "absent")],
      [NoLegacy EXCEPT !.clock = Options("absent", "false", "absent", "absent")],
      [NoLegacy EXCEPT !.clock = Scalar],
      [NoLegacy EXCEPT !.cpu = Scalar],
      [NoLegacy EXCEPT !.overlay = Options("false", "absent", "absent", "good")],
      [NoLegacy EXCEPT !.frame = Options("absent", "absent", "absent", "corrupt")] }

LegacyConfigs ==
    { [shape |-> "absent", entries |-> <<>>, legacy |-> NoLegacy, fit |-> f,
       moldura |-> m] : f \in BOOLEAN, m \in {"missing", "good"} }
    \cup
    { [shape |-> "mapping", entries |-> <<>>, legacy |-> l, fit |-> f,
       moldura |-> "good"] : l \in LegacyPool, f \in BOOLEAN }

RawConfigs == ListConfigs \cup LegacyConfigs

\* A YAML file without a plugins section
NoData ==
    [shape |-> "absent", entries |-> <<>>, legacy |-> NoLegacy, fit |-> FALSE,
     moldura |-> "missing"]

\* ---------------------------------------------------------- component state
\* A call made on the manager or on one of its plugins: the operation, its
\* argument, the plugin calls it made in order with what each returned, what
\* it returned itself, the filter index and the number of filters it found.
NoCall ==
    [op |-> "none", key |-> "", level |-> Absent, target |-> 0, order |-> <<>>,
     returned |-> <<>>, result |-> "", index_before |-> 0, filters |-> 0]

\* PluginManager.__init__: no filter plugin, index 0
NewManager(keys) ==
    [keys |-> keys, filter_count |-> 0, current_filter_index |-> 0, last |-> NoCall]

\* KeyboardHandler.__init__ with the process around it: the queue and the
\* lock, the running flag (set by start), the listener thread (its position,
\* the character it holds, the settings it saved), the caller of get_key (its
\* position, what the last call returned and whether it found the queue
\* empty), the terminal mode, the characters read and delivered so far, and
\* the number of read(1) calls that returned after stop().
IdleKeyboard ==
    [key_queue |-> <<>>, lock |-> "free", running |-> FALSE,
     listener |-> "not_started", ch |-> "", old_settings |-> "none",
     caller |-> "idle", returned |-> "", found_empty |-> TRUE, calls |-> 0,
     terminal |-> "cooked", process |-> "alive",
     read |-> <<>>, delivered |-> <<>>, late_reads |-> 0]
\* The cached state of a TailPlugin as its constructor leaves it (times in
\* ticks, sizes in bytes, lines without their terminators)
NewTail ==
    [lines |-> 1, following |-> TRUE, content |-> <<>>,
     last_file_size |-> 0, last_mtime |-> 0, last_update |-> 0]

\* An update() call: when it was made, how long after the call before and
\* after _last_update, whether the file was there, readable and with a size
\* or mtime other than the ones cached, whether its content had been
\* rewritten since the call before, and the lines cached before the call
NoUpdate ==
    [time |-> 0, gap |-> 0, since |-> 0, usable |-> FALSE, stat_differs |-> FALSE,
     rewritten |-> FALSE, before |-> <<>>]

\* The file a tail plugin follows: the lines readlines() returns, each with
\* its terminator
OneLineFile == [exists |-> TRUE, readable |-> TRUE, data |-> <<"x\n">>, mtime |-> 1]

\* drawn: the lines the last process_frame call drew
IdleTail ==
    [pc |-> "new", plugin |-> NewTail, file |-> OneLineFile, now |-> 1,
     rewritten |-> FALSE, calls |-> 0, last |-> NoUpdate, drawn |-> <<>>]
\* A datetime: the zone attached ("": naive) and the hour it shows
NoTime == [tzinfo |-> "", hour |-> 0]

\* ClockPlugin.__init__ (timezone "": None) with the instant of the system
\* clock as its UTC hour, and the last process_frame: the instant of the
\* call, the datetime it resolved, the hour and the zone label it drew
IdleClock ==
    [timezone |-> "", needs_tz |-> FALSE, instant |-> 0, rendered |-> FALSE,
     drawn_at |-> 0, now |-> NoTime, text |-> [hour |-> 0, zone |-> ""]]

\* A process_frame call of the CPU plugin: whether the plugin was shown,
\* whether it was the first call that found it shown, whether it sampled,
\* whether a sampling had been made before and how long before, what it drew
\* (-1: nothing) and the value cached before the call
NoCpuCall ==
    [visible |-> FALSE, first |-> FALSE, sampled |-> FALSE, prior |-> FALSE,
     gap |-> 0, drawn |-> -1, before |-> 0]

\* CPUPlugin.__init__ ("CPU: n%" kept as n) with the wall clock, in ticks:
\* time.time() counts from the epoch, so the first reading is far above any
\* interval; sampled_at is the time of the latest sampling (0: none yet) and
\* drawn_once whether a visible call has been made
IdleCpu ==
    [cpu_usage |-> 0, last_check |-> 0, update_interval |-> 2, show |-> TRUE,
     now |-> 3, sampled_at |-> 0, drawn_once |-> FALSE, last |-> NoCpuCall]

\* OverlayPlugin.__init__ and initialize with an image file that exists: the
\* cached image (the value of its alpha channel), the opacity in halves (2:
\* the default 1.0), the image as it was loaded, the number of process_frame
\* calls made and the alpha of what the last one pasted (-1: nothing)
IdleOverlay ==
    [enabled |-> TRUE, opacity |-> 2, overlay_image |-> 0, loaded |-> 0,
     pasted |-> -1, calls |-> 0]

\* The components that a specification does not exercise stay as constructed
ComponentsIdle ==
    /\ mgr = NewManager(DefaultKeys)
    /\ keyboard = IdleKeyboard
    /\ tail = IdleTail
    /\ clock = IdleClock
    /\ cpu = IdleCpu
    /\ overlay = IdleOverlay
    /\ yaml = NoData

\* ------------------------------------------------------------ initial state
\* No process_frame call made yet, and no capture that failed
NoRun ==
    [inp |-> NoFrame, calls |-> <<>>, io |-> <<>>, out |-> NoFrame,
     sent |-> <<0, 0>>, ret |-> TRUE]

Ids(reg) == [k \in 1..Len(reg) |-> reg[k].id]

Init ==
    /\ \E raw \in RawConfigs : app_config = _parse_config(raw)
    /\ plugins = <<>>
    /\ pc = "init"
    /\ idx = 1
    /\ init_result = "none"
    /\ kbd = "idle"
    /\ running = FALSE
    /\ paused = FALSE
    /\ frames = 0
    /\ last_run = NoRun
    /\ exit_path = "none"
    /\ reg_log = <<>>
    /\ cap = "none"
    /\ ComponentsIdle

\* ------------------------------------------------ PluginManager.initialize_plugins
StepReturn(kind, reg) == [kind |-> kind, plugins |-> reg]

\* A faulty loop body that passes over a descriptor whose enabled flag is off
InitializeOneSkipDisabled(reg, d, k, cfg) ==
    LET p0 == [NewPlugin(d.type, d.config) EXCEPT !.enabled = d.enabled, !.src = k]
        r == PluginInitialize(p0, cfg)
    IN  IF d.type \notin PLUGIN_CLASSES \/ ~d.enabled THEN StepReturn("skip", reg)
        ELSE IF r.outcome = "raised" THEN StepReturn("fail", reg)
        ELSE StepReturn("ok", register_plugin(reg, r.plugin, d.id))

\* A faulty loop body that gives up on a type it does not know
InitializeOneUnknownFails(reg, d, k, cfg) ==
    LET p0 == [NewPlugin(d.type, d.config) EXCEPT !.enabled = d.enabled, !.src = k]
        r == PluginInitialize(p0, cfg)
    IN  IF d.type \notin PLUGIN_CLASSES THEN StepReturn("fail", reg)
        ELSE IF r.outcome = "raised" THEN StepReturn("fail", reg)
        ELSE StepReturn("ok", register_plugin(reg, r.plugin, d.id))

\* The body of the loop over plugin_instances for the descriptor d at index k:
\* "skip" (unknown type, continue), "fail" (initialize raised, return False)
\* or "ok" (constructed, enabled set from the descriptor, initialized whatever
\* initialize returned, registered under the descriptor's id)
InitializeOne(reg, d, k, cfg) ==
    LET p0 == [NewPlugin(d.type, d.config) EXCEPT !.enabled = d.enabled, !.src = k]
        r == PluginInitialize(p0, cfg)
    IN  IF d.type \notin PLUGIN_CLASSES THEN StepReturn("skip", reg)
        ELSE IF r.outcome = "raised" THEN StepReturn("fail", reg)
        ELSE StepReturn("ok", register_plugin(reg, r.plugin, d.id))

\* One iteration of the loop over plugin_instances; after the last one
\* initialize_plugins returns True and OverlayX.initialize goes on to start
\* the keyboard. When initialize raises, initialize_plugins returns False,
\* OverlayX.initialize returns False and run() returns.
InitializeStep ==
    /\ pc = "init"
    /\ app_config.plugin_instances # <<>>
    /\ idx <= Len(app_config.plugin_instances)
    /\ LET d == app_config.plugin_instances[idx]
           last == idx = Len(app_config.plugin_instances)
           r == InitializeOne(plugins, d, idx, app_config)
       IN  IF r.kind = "fail" THEN
               /\ init_result' = "false"
               /\ pc' = "done"
               /\ exit_path' = "init_failed"
               /\ UNCHANGED <<plugins, reg_log, idx>>
           ELSE
               /\ plugins' = r.plugins
               /\ reg_log' = IF r.kind = "skip" THEN reg_log
                             ELSE Append(reg_log, [requested |-> d.id,
                                                   before |-> Ids(plugins),
                                                   after |-> Ids(r.plugins)])
               /\ idx' = idx + 1
               /\ pc' = IF last THEN "kbd_start" ELSE "init"
               /\ init_result' = IF last THEN "true" ELSE "none"
               /\ UNCHANGED exit_path
    /\ UNCHANGED <<app_config, kbd, running, paused, frames, last_run>>
    /\ UNCHANGED <<cap, comp_vars>>

\* The three constructions and registrations of _initialize_legacy_plugins,
\* up to the first constructor that raises
LegacyOverlayConfig(legacy) ==
    IF legacy.frame # NoOptions THEN legacy.frame ELSE legacy.overlay

LegacyConfigOf(legacy, k) ==
    CASE k = 1 -> legacy.clock [] k = 2 -> legacy.cpu [] OTHER -> LegacyOverlayConfig(legacy)

LegacyTypes == <<"clock", "cpu", "overlay">>

RECURSIVE LegacyRegister(_, _, _)
LegacyRegister(reg, legacy, k) ==
    IF k > Len(LegacyTypes) THEN [plugins |-> reg, raised |-> FALSE]
    ELSE IF ConstructorRaises(LegacyConfigOf(legacy, k))
         THEN [plugins |-> reg, raised |-> TRUE]
    ELSE LegacyRegister(
             register_plugin(reg, NewPlugin(LegacyTypes[k], LegacyConfigOf(legacy, k)),
                             NoneId),
             legacy, k + 1)

\* The initialisation loop of _initialize_legacy_plugins: an exception is
\* printed and the loop goes on; the value initialize returns is not read
LegacyInitializeAll(reg, cfg) ==
    [k \in 1..Len(reg) |->
        [id |-> reg[k].id, plugin |-> PluginInitialize(reg[k].plugin, cfg).plugin]]

\* initialize_plugins when plugin_instances is empty. plugins_data.get raises
\* AttributeError when the raw 'plugins' value is a list; an exception of a
\* constructor leaves _initialize_legacy_plugins, initialize_plugins and run().
InitializeLegacy ==
    /\ pc = "init"
    /\ app_config.plugin_instances = <<>>
    /\ LET r == LegacyRegister(plugins, app_config.legacy, 1)
       IN  IF app_config.plugins_shape = "list" \/ r.raised THEN
               /\ plugins' = IF app_config.plugins_shape = "list" THEN plugins
                             ELSE r.plugins
               /\ init_result' = "raised"
               /\ pc' = "done"
               /\ exit_path' = "crashed"
           ELSE
               /\ plugins' = LegacyInitializeAll(r.plugins, app_config)
               /\ init_result' = "true"
               /\ pc' = "kbd_start"
               /\ UNCHANGED exit_path
    /\ UNCHANGED <<app_config, idx, kbd, running, paused, frames, last_run, reg_log>>
    /\ UNCHANGED <<cap, comp_vars>>

\* ------------------------------------------------------------- OverlayX.run
\* OverlayX.initialize after initialize_plugins returned True:
\* keyboard_handler.start() and running = True
StartKeyboard ==
    /\ pc = "kbd_start"
    /\ kbd' = "running"
    /\ running' = TRUE
    /\ pc' = "open_cam"
    /\ UNCHANGED <<app_config, plugins, idx, init_result, paused, frames, last_run,
                   exit_path, reg_log>>
    /\ UNCHANGED <<cap, comp_vars>>

\* cv2.VideoCapture(device); run() returns when the camera is not opened
OpenCamera ==
    /\ pc = "open_cam"
    /\ \E opened \in BOOLEAN :
          IF opened THEN pc' = "loop" /\ cap' = "opened" /\ UNCHANGED exit_path
          ELSE pc' = "done" /\ cap' = "not_opened" /\ exit_path' = "no_camera"
    /\ UNCHANGED <<app_config, plugins, idx, init_result, kbd, running, paused, frames,
                   last_run, reg_log>>
    /\ UNCHANGED comp_vars

\* The keys get_key may deliver ("": None, no key buffered)
KeyInputs == {"", QuitKey, PauseKey, "r"}

\* The size of the image given to cam.send: the pipeline's result, resized
\* to the target size when its size differs
SentAsReturned(size) == size

SentSize(size) == IF size # OutSize THEN OutSize ELSE size

\* One process_frame call of the loop and the resize that follows it
RunPipeline(reg, size) ==
    LET inp == Frame(PreFit(size, app_config.fit))
        s == process_frame(reg, inp)
        out == s.objs[s.cur]
    IN  [inp |-> inp, calls |-> s.calls, io |-> s.io, out |-> out,
         sent |-> SentSize(out.size), ret |-> TRUE]

\* ret, frame = cap.read(); if not ret: break
ReadNeverFails(ret) == FALSE

ReadFails(ret) == ~ret

\* if key == keyboard_shortcuts.get('pause', ' '): self.paused = not self.paused
PauseIgnored(keys, key, was) == was

Pause(keys, key, was) == IF key = keys.pause THEN ~was ELSE was

\* One iteration of the while loop of run() under the bindings keys, with
\* the key get_key delivered, what cap.read() returned and the size of the
\* image captured: the key dispatched, the pause flag, the capture, the
\* pipeline and the publication
LoopStep(keys, key, ret, size) ==
          LET r == IF key = "" THEN [plugins |-> plugins, result |-> "not_handled"]
                   ELSE ManagerOnKeypress(plugins, keys, key)
              p2 == IF key = "" THEN paused ELSE Pause(keys, key, paused)
          IN  IF r.result = "quit" THEN
                  /\ plugins' = r.plugins
                  /\ pc' = "finally"
                  /\ exit_path' = "quit"
                  /\ UNCHANGED <<paused, frames, last_run>>
              ELSE IF p2 THEN
                  /\ plugins' = r.plugins
                  /\ paused' = p2
                  /\ UNCHANGED <<pc, exit_path, frames, last_run>>
              ELSE IF ReadFails(ret) THEN
                  /\ plugins' = r.plugins
                  /\ paused' = p2
                  /\ pc' = "finally"
                  /\ exit_path' = "read_fail"
                  /\ last_run' = [last_run EXCEPT !.ret = FALSE]
                  /\ UNCHANGED frames
              ELSE
                  /\ frames < MaxFrames
                  /\ plugins' = r.plugins
                  /\ paused' = p2
                  /\ last_run' = [RunPipeline(r.plugins, size) EXCEPT !.ret = ret]
                  /\ frames' = frames + 1
                  /\ UNCHANGED <<pc, exit_path>>

LoopIteration ==
    /\ pc = "loop"
    /\ running
    /\ \E key \in KeyInputs, ret \in BOOLEAN, size \in CamSizes :
          LoopStep(DefaultKeys, key, ret, size)
    /\ UNCHANGED <<app_config, idx, init_result, kbd, running, reg_log>>
    /\ UNCHANGED <<cap, comp_vars>>

\* KeyboardInterrupt inside the try block
Interrupt ==
    /\ pc = "loop"
    /\ pc' = "finally"
    /\ exit_path' = "interrupt"
    /\ UNCHANGED <<app_config, plugins, idx, init_result, kbd, running, paused, frames,
                   last_run, reg_log>>
    /\ UNCHANGED <<cap, comp_vars>>

\* PluginManager.cleanup: cleanup() of every registered plugin (no plugin
\* class overrides the empty Plugin.cleanup)
ManagerCleanup(reg) ==
    [k \in 1..Len(reg) |->
        [id |-> reg[k].id,
         plugin |-> [reg[k].plugin EXCEPT !.cleanup_calls = @ + 1]]]

\* The finally block: cap.release() and OverlayX.cleanup()
Finally ==
    /\ pc = "finally"
    /\ running' = FALSE
    /\ kbd' = "stopped"
    /\ cap' = "released"
    /\ plugins' = ManagerCleanup(plugins)
    /\ pc' = "done"
    /\ UNCHANGED <<app_config, idx, init_result, paused, frames, last_run, exit_path,
                   reg_log>>
    /\ UNCHANGED comp_vars

Next ==
    \/ InitializeStep
    \/ InitializeLegacy
    \/ StartKeyboard
    \/ OpenCamera
    \/ LoopIteration
    \/ Interrupt
    \/ Finally

Spec == Init /\ [][Next]_vars

\* ------------------------------------------- register_plugin called directly
\* The ids a caller may ask for (NoneId: none given) and the plugins it passes
RegIds == {NoneId, Id("clock"), Suffixed(Id("clock"), 1), Id("cpu")}
RegTypes == {"clock", "cpu"}

InitReg ==
    /\ app_config = _parse_config([shape |-> "absent", entries |-> <<>>,
                                   legacy |-> NoLegacy, fit |-> FALSE,
                                   moldura |-> "missing"])
    /\ plugins = <<>>
    /\ pc = "register"
    /\ idx = 1
    /\ init_result = "none"
    /\ kbd = "idle"
    /\ running = FALSE
    /\ paused = FALSE
    /\ frames = 0
    /\ last_run = NoRun
    /\ exit_path = "none"
    /\ reg_log = <<>>
    /\ cap = "none"
    /\ ComponentsIdle

\* PluginManager.register_plugin(plugin, instance_id)
RegisterPlugin ==
    /\ pc = "register"
    /\ Len(reg_log) < MaxRegs
    /\ \E type \in RegTypes, instance_id \in RegIds :
          LET plugin == NewPlugin(type, NoOptions)
              reg == register_plugin(plugins, plugin, instance_id)
          IN  /\ plugins' = reg
              /\ reg_log' = Append(reg_log,
                                   [requested |-> RequestedId(plugin, instance_id),
                                    before |-> Ids(plugins), after |-> Ids(reg)])
    /\ UNCHANGED <<app_config, pc, idx, init_result, kbd, running, paused, frames,
                   last_run, exit_path>>
    /\ UNCHANGED <<cap, comp_vars>>

\* The loop of PluginManager.cleanup from entry k on. Plugin.cleanup is the
\* hook a plugin class overrides; bad is the entry whose cleanup raises (0:
\* none does, as with the classes of the repository, which keep the empty
\* one). The exception leaves the loop and the method.
RECURSIVE CleanupFrom(_, _, _)
CleanupFrom(reg, bad, k) ==
    IF k > Len(reg) THEN [plugins |-> reg, raised |-> FALSE]
    ELSE LET called == [reg EXCEPT ![k].plugin.cleanup_calls = @ + 1]
         IN  IF k = bad THEN [plugins |-> called, raised |-> TRUE]
             ELSE CleanupFrom(called, bad, k + 1)

\* PluginManager.cleanup()
Cleanup ==
    /\ pc = "register"
    /\ plugins # <<>>
    /\ \E bad \in 0..Len(plugins) :
          LET r == CleanupFrom(plugins, bad, 1)
          IN  /\ plugins' = r.plugins
              /\ exit_path' = IF r.raised THEN "cleanup_raised" ELSE "cleanup_returned"
    /\ pc' = "cleaned"
    /\ UNCHANGED <<app_config, idx, init_result, kbd, running, paused, frames,
                   last_run, reg_log>>
    /\ UNCHANGED <<cap, comp_vars>>

NextReg ==
    \/ RegisterPlugin
    \/ Cleanup

SpecReg == InitReg /\ [][NextReg]_vars

\* ---------------------------------- the manager and its plugins called directly
MaxFilters == 2

Shortcuts(table) == [NoOptions EXCEPT !.shortcuts = table]
ToggleT == << <<"toggle", "t">> >>
ZoomThenToggleT == << <<"zoom", "t">>, <<"toggle", "t">> >>

\* The plugins a caller constructs, by class and options, in the order it
\* registers them
ApiRegistries ==
    { << <<"clock", Shortcuts(ToggleT)>>,
         <<"overlay", [Shortcuts(ToggleT) EXCEPT !.file = "good"]>> >>,
      << <<"tail", [Shortcuts(ToggleT) EXCEPT !.file = "good"]>>,
         <<"crop", Shortcuts(ToggleT)>> >>,
      << <<"tlp", NoOptions>>,
         <<"cpu", Shortcuts(ToggleT)>>,
         <<"clock", NoOptions>> >>,
      << <<"tlp", [Shortcuts(ToggleT) EXCEPT !.default_tlp = Str("red")]>> >>,
      << <<"tlp", [NoOptions EXCEPT !.default_tlp = Str("bogus")]>>,
         <<"tlp", [NoOptions EXCEPT !.default_tlp = NonStr("5")]>> >>,
      << <<"overlay", [Shortcuts(ZoomThenToggleT) EXCEPT !.file = "good"]>> >> }

\* Each plugin constructed, initialized and handed to register_plugin
RECURSIVE RegisterAll(_, _)
RegisterAll(reg, classes) ==
    IF classes = <<>> THEN reg
    ELSE LET c == Head(classes)
             r == PluginInitialize(NewPlugin(c[1], c[2]), app_config)
         IN  RegisterAll(register_plugin(reg, r.plugin, NoneId), Tail(classes))

\* keyboard_shortcuts mappings: the defaults, and quit sharing its key with
\* next_filter and with the plugins' toggle
KeyTables ==
    { DefaultKeys,
      [DefaultKeys EXCEPT !.quit = "t", !.next_filter = "t"] }

ApiKeys == {"t", QuitKey, NextFilterKey, PrevFilterKey, "r"}

InitApi ==
    /\ app_config = _parse_config([shape |-> "absent", entries |-> <<>>,
                                   legacy |-> NoLegacy, fit |-> FALSE,
                                   moldura |-> "missing"])
    /\ \E classes \in ApiRegistries : plugins = RegisterAll(<<>>, classes)
    /\ pc = "api"
    /\ idx = 1
    /\ init_result = "none"
    /\ kbd = "idle"
    /\ running = FALSE
    /\ paused = FALSE
    /\ frames = 0
    /\ last_run = NoRun
    /\ exit_path = "none"
    /\ reg_log = <<>>
    /\ cap = "none"
    /\ \E keys \in KeyTables : mgr = NewManager(keys)
    /\ keyboard = IdleKeyboard
    /\ tail = IdleTail
    /\ clock = IdleClock
    /\ cpu = IdleCpu
    /\ overlay = IdleOverlay
    /\ yaml = NoData

api_unchanged == <<app_config, pc, idx, init_result, kbd, running, paused, frames,
                   last_run, exit_path, reg_log, cap, keyboard, tail, clock, cpu,
                   overlay, yaml>>

\* PluginManager.register_filter(filter_plugin)
RegisterFilter ==
    /\ pc = "api"
    /\ mgr.filter_count < MaxFilters
    /\ mgr' = [mgr EXCEPT !.filter_count = @ + 1]
    /\ UNCHANGED plugins
    /\ UNCHANGED api_unchanged

\* PluginManager.on_keypress(key)
OnKeypress ==
    /\ pc = "api"
    /\ \E key \in ApiKeys :
          LET r == on_keypress(plugins, mgr.keys, mgr.filter_count,
                               mgr.current_filter_index, key)
          IN  /\ plugins' = r.plugins
              /\ mgr' = [mgr EXCEPT !.current_filter_index = r.index,
                                    !.last = [NoCall EXCEPT
                                        !.op = "on_keypress", !.key = key,
                                        !.order = r.order, !.returned = r.returned,
                                        !.result = r.result,
                                        !.index_before = mgr.current_filter_index,
                                        !.filters = mgr.filter_count]]
    /\ UNCHANGED api_unchanged

\* plugin.handle_shortcut(action) called on one registered plugin
ShortcutActions == {"toggle", "red", "RED", "Amber", "zoom"}

HandleShortcut ==
    /\ pc = "api"
    /\ \E j \in 1..Len(plugins), action \in ShortcutActions :
          LET r == handle_shortcut(plugins[j].plugin, action)
          IN  /\ plugins' = [plugins EXCEPT ![j].plugin = r.plugin]
              /\ mgr' = [mgr EXCEPT !.last = [NoCall EXCEPT
                            !.op = "handle_shortcut", !.key = action, !.target = j,
                            !.result = IF r.handled THEN "handled" ELSE "not_handled"]]
    /\ UNCHANGED api_unchanged

\* The values a caller passes to set_tlp_level
LevelInputs == {Str("red"), Str("AMBER"), Str("bogus"), Str(""), NonStr("5")}

\* set_tlp_level(level) called on a registered tlp plugin; the call record
\* keeps the level the plugin had
SetTlpLevel ==
    /\ pc = "api"
    /\ \E j \in 1..Len(plugins), level \in LevelInputs :
          /\ plugins[j].plugin.name = "tlp"
          /\ LET r == set_tlp_level(plugins[j].plugin, level)
             IN  /\ plugins' = [plugins EXCEPT ![j].plugin = r.plugin]
                 /\ mgr' = [mgr EXCEPT !.last = [NoCall EXCEPT
                               !.op = "set_tlp_level", !.level = level, !.target = j,
                               !.key = plugins[j].plugin.tlp_level,
                               !.result = IF r.changed THEN "true" ELSE "false"]]
    /\ UNCHANGED api_unchanged

NextApi ==
    \/ RegisterFilter
    \/ SetTlpLevel
    \/ OnKeypress
    \/ HandleShortcut

SpecApi == InitApi /\ [][NextApi]_vars

\* ------------------------------------------------------ the keyboard handler
MaxTyped == 3
Chars == {"a", "b"}

InitKbd ==
    /\ app_config = _parse_config([shape |-> "absent", entries |-> <<>>,
                                   legacy |-> NoLegacy, fit |-> FALSE,
                                   moldura |-> "missing"])
    /\ plugins = <<>>
    /\ pc = "keyboard"
    /\ idx = 1
    /\ init_result = "none"
    /\ kbd = "idle"
    /\ running = FALSE
    /\ paused = FALSE
    /\ frames = 0
    /\ last_run = NoRun
    /\ exit_path = "none"
    /\ reg_log = <<>>
    /\ cap = "none"
    /\ mgr = NewManager(DefaultKeys)
    /\ keyboard = IdleKeyboard
    /\ tail = IdleTail
    /\ clock = IdleClock
    /\ cpu = IdleCpu
    /\ overlay = IdleOverlay
    /\ yaml = NoData

kbd_unchanged == <<run_vars, mgr, tail, clock, cpu, overlay, yaml>>

Alive == pc = "keyboard" /\ keyboard.process = "alive"

\* KeyboardHandler.start(): the flag, then the daemon thread
KbdStart ==
    /\ Alive
    /\ keyboard.listener = "not_started"
    /\ keyboard' = [keyboard EXCEPT !.running = TRUE, !.listener = "tcgetattr"]
    /\ UNCHANGED kbd_unchanged

\* old_settings = termios.tcgetattr(fd), outside the try: an error (stdin is
\* not a terminal) ends the thread
ListenerSave ==
    /\ Alive
    /\ keyboard.listener = "tcgetattr"
    /\ \E ok \in BOOLEAN :
          keyboard' = IF ok THEN [keyboard EXCEPT !.old_settings = keyboard.terminal,
                                                  !.listener = "setcbreak"]
                      ELSE [keyboard EXCEPT !.listener = "exited"]
    /\ UNCHANGED kbd_unchanged

\* tty.setcbreak(fd), the first statement of the try
ListenerSetCbreak ==
    /\ Alive
    /\ keyboard.listener = "setcbreak"
    /\ \E ok \in BOOLEAN :
          keyboard' = IF ok THEN [keyboard EXCEPT !.terminal = "cbreak",
                                                  !.listener = "while"]
                      ELSE [keyboard EXCEPT !.listener = "finally"]
    /\ UNCHANGED kbd_unchanged

\* while self.running
KeepsReadingAlways(k) == TRUE

KeepsReading(k) == k.running

ListenerWhile ==
    /\ Alive
    /\ keyboard.listener = "while"
    /\ keyboard' = [keyboard EXCEPT !.listener = IF KeepsReading(keyboard) THEN "read"
                                                 ELSE "finally"]
    /\ UNCHANGED kbd_unchanged

\* ch = sys.stdin.read(1) returns: a character, '' at end of input, or an
\* exception, which the bare except turns into break
ListenerRead ==
    /\ Alive
    /\ keyboard.listener = "read"
    /\ LET late == IF keyboard.running THEN 0 ELSE 1
       IN  \/ /\ Len(keyboard.read) < MaxTyped
              /\ \E c \in Chars :
                    keyboard' = [keyboard EXCEPT !.ch = c, !.read = Append(@, c),
                                                 !.late_reads = @ + late,
                                                 !.listener = "acquire"]
           \/ keyboard' = [keyboard EXCEPT !.ch = "", !.late_reads = @ + late,
                                           !.listener = "while"]
           \/ keyboard' = [keyboard EXCEPT !.ch = "", !.late_reads = @ + late,
                                           !.listener = "finally"]
    /\ UNCHANGED kbd_unchanged

\* with self.lock (listener)
ListenerAcquire ==
    /\ Alive
    /\ keyboard.listener = "acquire"
    /\ keyboard.lock = "free"
    /\ keyboard' = [keyboard EXCEPT !.lock = "listener", !.listener = "append"]
    /\ UNCHANGED kbd_unchanged

\* self.key_queue.append(ch) and the release of the lock at the end of the
\* with block
AppendKeepsLock(k) ==
    [k EXCEPT !.key_queue = Append(@, k.ch), !.ch = "", !.listener = "while"]

AppendUnderLock(k) ==
    [k EXCEPT !.key_queue = Append(@, k.ch), !.ch = "", !.lock = "free",
              !.listener = "while"]

ListenerAppend ==
    /\ Alive
    /\ keyboard.listener = "append"
    /\ keyboard' = AppendUnderLock(keyboard)
    /\ UNCHANGED kbd_unchanged

\* finally: termios.tcsetattr(fd, termios.TCSADRAIN, old_settings)
ListenerFinally ==
    /\ Alive
    /\ keyboard.listener = "finally"
    /\ keyboard' = [keyboard EXCEPT !.terminal = keyboard.old_settings,
                                    !.listener = "exited"]
    /\ UNCHANGED kbd_unchanged

\* get_key() is called: the caller goes for the lock
GetKeyCall ==
    /\ Alive
    /\ keyboard.caller = "idle"
    /\ keyboard.calls < MaxTyped + 1
    /\ keyboard' = [keyboard EXCEPT !.caller = "acquire", !.calls = @ + 1]
    /\ UNCHANGED kbd_unchanged

\* with self.lock (get_key)
GetKeyAcquire ==
    /\ Alive
    /\ keyboard.caller = "acquire"
    /\ keyboard.lock = "free"
    /\ keyboard' = [keyboard EXCEPT !.lock = "caller", !.caller = "locked"]
    /\ UNCHANGED kbd_unchanged

\* self.key_queue.pop(0): the key taken and the queue left
PopLast(queue) ==
    [key |-> queue[Len(queue)], rest |-> SubSeq(queue, 1, Len(queue) - 1)]

PopKey(queue) == [key |-> Head(queue), rest |-> Tail(queue)]

\* if self.key_queue: return self.key_queue.pop(0); else return None ("")
GetKeyReturn ==
    /\ Alive
    /\ keyboard.caller = "locked"
    /\ keyboard' =
          IF keyboard.key_queue # <<>>
          THEN LET r == PopKey(keyboard.key_queue)
               IN  [keyboard EXCEPT !.key_queue = r.rest, !.returned = r.key,
                                    !.found_empty = FALSE,
                                    !.delivered = Append(@, r.key),
                                    !.lock = "free", !.caller = "idle"]
          ELSE [keyboard EXCEPT !.returned = "", !.found_empty = TRUE,
                                !.lock = "free", !.caller = "idle"]
    /\ UNCHANGED kbd_unchanged

\* KeyboardHandler.stop()
KbdStop ==
    /\ Alive
    /\ keyboard.caller = "idle"
    /\ keyboard.running
    /\ keyboard' = [keyboard EXCEPT !.running = FALSE]
    /\ UNCHANGED kbd_unchanged

\* run() returns and the interpreter exits: the listener is a daemon thread,
\* so it is not joined; it ends where it stands, without running its finally.
ProcessExit ==
    /\ Alive
    /\ keyboard.caller = "idle"
    /\ keyboard.listener # "not_started"
    /\ keyboard' = [keyboard EXCEPT
                        !.process = "exited",
                        !.listener = IF @ = "exited" THEN "exited" ELSE "killed"]
    /\ UNCHANGED kbd_unchanged

NextKbd ==
    \/ KbdStart
    \/ ListenerSave
    \/ ListenerSetCbreak
    \/ ListenerWhile
    \/ ListenerRead
    \/ ListenerAcquire
    \/ ListenerAppend
    \/ ListenerFinally
    \/ GetKeyCall
    \/ GetKeyAcquire
    \/ GetKeyReturn
    \/ KbdStop
    \/ ProcessExit

SpecKbd == InitKbd /\ [][NextKbd]_vars

\* The listener is a thread of its own and get_key runs on the main thread:
\* the scheduler lets each of them take the step it is able to take. A read
\* returns only when the terminal delivers something, and nothing makes the
\* main thread call get_key, stop() or exit.
ListenerStep ==
    \/ ListenerSave
    \/ ListenerSetCbreak
    \/ ListenerWhile
    \/ ListenerAcquire
    \/ ListenerAppend
    \/ ListenerFinally

SpecKbdFair ==
    /\ SpecKbd
    /\ WF_vars(ListenerStep)
    /\ WF_vars(GetKeyAcquire)
    /\ WF_vars(GetKeyReturn)

\* ---------------------------------------------------------- the tail plugin
MaxTime == 5

\* update_interval, in ticks
UpdateInterval == 2

\* st_size: every line of the modelled files is one character and a newline
FileSize(f) == 2 * Len(f.data)

\* all_lines[-n:]: the last n lines, and the whole list when n is 0
LastLines(all_lines, n) ==
    IF n = 0 THEN all_lines
    ELSE SubSeq(all_lines, Len(all_lines) - n + 1, Len(all_lines))

\* The lines kept: the last n (following) or the first n when the file has
\* more than n lines, every line otherwise
KeptLines(all_lines, n, following) ==
    IF Len(all_lines) > n
    THEN IF following THEN LastLines(all_lines, n) ELSE SubSeq(all_lines, 1, n)
    ELSE all_lines

\* line.rstrip('\n\r')
Rstrip(line) ==
    CASE line = "x\n" -> "x"
      [] line = "y\n" -> "y"
      [] OTHER -> line

Stripped(lines) == [i \in 1..Len(lines) |-> Rstrip(lines[i])]

NotFound == <<"[Arquivo nao encontrado]">>
ReadError == <<"[Erro ao ler arquivo]">>

\* TailPlugin._read_file
_read_file(t, f) ==
    IF ~f.exists THEN [t EXCEPT !.content = NotFound]
    ELSE IF FileSize(f) = t.last_file_size /\ f.mtime = t.last_mtime THEN t
    ELSE LET t1 == [t EXCEPT !.last_file_size = FileSize(f), !.last_mtime = f.mtime]
         IN  IF ~f.readable THEN [t1 EXCEPT !.content = ReadError]
             ELSE [t1 EXCEPT !.content =
                                 Stripped(KeptLines(f.data, t.lines, t.following))]

\* TailPlugin.update: reads when update_interval has passed since _last_update
UpdateOnEveryCall(t, f, current_time) ==
    [_read_file(t, f) EXCEPT !.last_update = current_time]

TailUpdate(t, f, current_time) ==
    IF current_time - t.last_update >= UpdateInterval
    THEN [_read_file(t, f) EXCEPT !.last_update = current_time]
    ELSE t

InitTail ==
    /\ app_config = _parse_config([shape |-> "absent", entries |-> <<>>,
                                   legacy |-> NoLegacy, fit |-> FALSE,
                                   moldura |-> "missing"])
    /\ plugins = <<>>
    /\ pc = "tail"
    /\ idx = 1
    /\ init_result = "none"
    /\ kbd = "idle"
    /\ running = FALSE
    /\ paused = FALSE
    /\ frames = 0
    /\ last_run = NoRun
    /\ exit_path = "none"
    /\ reg_log = <<>>
    /\ cap = "none"
    /\ mgr = NewManager(DefaultKeys)
    /\ keyboard = IdleKeyboard
    /\ \E there \in BOOLEAN : tail = [IdleTail EXCEPT !.file.exists = there]
    /\ clock = IdleClock
    /\ cpu = IdleCpu
    /\ overlay = IdleOverlay
    /\ yaml = NoData

tail_unchanged == <<run_vars, mgr, keyboard, clock, cpu, overlay, yaml>>

\* TailPlugin.initialize with a 'file' option: the first read, then
\* _last_update = time.time()
TailInit ==
    /\ pc = "tail"
    /\ tail.pc = "new"
    /\ tail' = [tail EXCEPT !.pc = "ready",
                            !.plugin = [_read_file(tail.plugin, tail.file)
                                            EXCEPT !.last_update = tail.now]]
    /\ UNCHANGED tail_unchanged

\* time.time() moves on
Tick ==
    /\ pc = "tail"
    /\ tail.now < MaxTime
    /\ tail' = [tail EXCEPT !.now = @ + 1]
    /\ UNCHANGED tail_unchanged

FileData == {<<"x\n">>, <<"y\n">>, <<"x\n", "y\n">>}

\* Another process rewrites the file. st_mtime becomes the current time, or
\* stays what it was (a write within the same timestamp tick, or a writer
\* that puts the old time back).
FileWrite ==
    /\ pc = "tail"
    /\ tail.file.exists
    /\ \E data \in FileData \ {tail.file.data}, mtime \in {tail.now, tail.file.mtime} :
          tail' = [tail EXCEPT !.file.data = data, !.file.mtime = mtime,
                               !.rewritten = TRUE]
    /\ UNCHANGED tail_unchanged

\* The file is removed, or put (back) in place
FileMove ==
    /\ pc = "tail"
    /\ tail' = [tail EXCEPT !.file.exists = ~@]
    /\ UNCHANGED tail_unchanged

\* update(delta_time) is called
Update ==
    /\ pc = "tail"
    /\ tail.pc = "ready"
    /\ LET t == tail.plugin
           f == tail.file
           u == TailUpdate(t, f, tail.now)
       IN  tail' = [tail EXCEPT
                       !.plugin = u,
                       !.calls = IF @ < 2 THEN @ + 1 ELSE @,
                       !.rewritten = FALSE,
                       !.last = [time |-> tail.now,
                                 gap |-> tail.now - tail.last.time,
                                 since |-> tail.now - t.last_update,
                                 usable |-> f.exists /\ f.readable,
                                 stat_differs |-> FileSize(f) # t.last_file_size
                                                  \/ f.mtime # t.last_mtime,
                                 rewritten |-> tail.rewritten,
                                 before |-> t.content]]
    /\ UNCHANGED tail_unchanged

NextTail ==
    \/ TailInit
    \/ Tick
    \/ FileWrite
    \/ FileMove
    \/ Update

SpecTail == InitTail /\ [][NextTail]_vars

\* ------------------------------------------- the tail plugin in the frame loop
\* A visible tail plugin after initialize (the first read done, _last_update
\* set), driven by the manager: process_frame is the only method called
InitFrames ==
    /\ app_config = _parse_config(NoData)
    /\ plugins = <<>>
    /\ pc = "frames"
    /\ idx = 1
    /\ init_result = "none"
    /\ kbd = "idle"
    /\ running = FALSE
    /\ paused = FALSE
    /\ frames = 0
    /\ last_run = NoRun
    /\ exit_path = "none"
    /\ reg_log = <<>>
    /\ cap = "none"
    /\ mgr = NewManager(DefaultKeys)
    /\ keyboard = IdleKeyboard
    /\ \E data \in FileData, n \in 1..2, following \in BOOLEAN :
          LET f == [OneLineFile EXCEPT !.data = data]
              t == [NewTail EXCEPT !.lines = n, !.following = following]
          IN  tail = [IdleTail EXCEPT
                         !.pc = "ready",
                         !.file = f,
                         !.plugin = [_read_file(t, f) EXCEPT
                                        !.last_update = IdleTail.now]]
    /\ clock = IdleClock
    /\ cpu = IdleCpu
    /\ overlay = IdleOverlay
    /\ yaml = NoData

\* time.time() moves on
FrameTick ==
    /\ pc = "frames"
    /\ tail.now < MaxTime
    /\ tail' = [tail EXCEPT !.now = @ + 1]
    /\ UNCHANGED tail_unchanged

\* Another process rewrites the file, once; st_mtime becomes the current time
FrameWrite ==
    /\ pc = "frames"
    /\ ~tail.rewritten
    /\ \E data \in FileData \ {tail.file.data} :
          tail' = [tail EXCEPT !.file.data = data, !.file.mtime = tail.now,
                               !.rewritten = TRUE]
    /\ UNCHANGED tail_unchanged

\* TailPlugin.process_frame(frame, draw) on the visible plugin: the box and
\* the lines of self._content are drawn; nothing is read (calls: 1 and 2 in
\* turn, the loop of run() going on frame after frame)
TailFrame ==
    /\ pc = "frames"
    /\ tail' = [tail EXCEPT !.drawn = tail.plugin.content,
                            !.calls = IF @ = 1 THEN 2 ELSE 1]
    /\ UNCHANGED tail_unchanged

NextFrames ==
    \/ FrameTick
    \/ FrameWrite
    \/ TailFrame

SpecFrames ==
    InitFrames /\ [][NextFrames]_vars /\ WF_vars(FrameTick) /\ WF_vars(TailFrame)

\* --------------------------------------------------------- the clock plugin
\* The hours east of UTC of the zones of the modelled machine: its local
\* zone, and the zones its tz database knows
Offset(zone) ==
    CASE zone = "UTC" -> 0
      [] zone = "Asia/Tokyo" -> 9
      [] zone = "local" -> 21

TzDatabase == {"UTC", "Asia/Tokyo"}

\* datetime.now(tz), and datetime.now(): naive, the local wall clock
NowIn(zone, instant) == [tzinfo |-> zone, hour |-> (instant + Offset(zone)) % 24]
NowNaive(instant) == [tzinfo |-> "", hour |-> (instant + Offset("local")) % 24]

\* str.lower() and str.upper() on the timezone names the model uses
TzLower(name) ==
    CASE name = "Local" -> "local"
      [] name = "UTC" -> "utc"
      [] name = "Asia/Tokyo" -> "asia/tokyo"
      [] name = "Mars/Phobos" -> "mars/phobos"
      [] OTHER -> name

TzUpper(name) ==
    CASE name = "utc" -> "UTC"
      [] name = "local" -> "LOCAL"
      [] name = "Local" -> "LOCAL"
      [] name = "Asia/Tokyo" -> "ASIA/TOKYO"
      [] name = "Mars/Phobos" -> "MARS/PHOBOS"
      [] OTHER -> name

\* ClockPlugin._get_current_time
_get_current_time(timezone, needs_tz, instant) ==
    IF timezone = "" THEN
        IF needs_tz THEN NowIn("local", instant) ELSE NowNaive(instant)
    ELSE IF TzLower(timezone) = "local" THEN NowIn("local", instant)
    ELSE IF ~needs_tz THEN NowNaive(instant)
    ELSE IF TzUpper(timezone) = "UTC" THEN NowIn("UTC", instant)
    ELSE IF timezone \in TzDatabase THEN NowIn(timezone, instant)
    ELSE NowNaive(instant)

\* now.strftime(self.format_str): the hour, and the zone name where the
\* format has a zone directive (empty for a naive datetime)
Strftime(now, needs_tz) ==
    [hour |-> now.hour, zone |-> IF needs_tz THEN now.tzinfo ELSE ""]

\* The 'timezone' options ("": none) and whether 'format' holds %z or %Z
Timezones == {"", "local", "Local", "UTC", "Asia/Tokyo", "Mars/Phobos"}

InitClock ==
    /\ app_config = _parse_config([shape |-> "absent", entries |-> <<>>,
                                   legacy |-> NoLegacy, fit |-> FALSE,
                                   moldura |-> "missing"])
    /\ plugins = <<>>
    /\ pc = "clock"
    /\ idx = 1
    /\ init_result = "none"
    /\ kbd = "idle"
    /\ running = FALSE
    /\ paused = FALSE
    /\ frames = 0
    /\ last_run = NoRun
    /\ exit_path = "none"
    /\ reg_log = <<>>
    /\ cap = "none"
    /\ mgr = NewManager(DefaultKeys)
    /\ keyboard = IdleKeyboard
    /\ tail = IdleTail
    /\ \E timezone \in Timezones, needs_tz \in BOOLEAN :
          clock = [IdleClock EXCEPT !.timezone = timezone, !.needs_tz = needs_tz]
    /\ cpu = IdleCpu
    /\ overlay = IdleOverlay
    /\ yaml = NoData

clock_unchanged == <<run_vars, mgr, keyboard, tail, cpu, overlay, yaml>>

\* An hour passes on the system clock
HourPasses ==
    /\ pc = "clock"
    /\ clock' = [clock EXCEPT !.instant = (@ + 1) % 24]
    /\ UNCHANGED clock_unchanged

\* ClockPlugin.process_frame on a shown clock: the time is resolved and drawn
ClockProcess ==
    /\ pc = "clock"
    /\ LET now == _get_current_time(clock.timezone, clock.needs_tz, clock.instant)
       IN  clock' = [clock EXCEPT !.rendered = TRUE, !.drawn_at = clock.instant,
                                  !.now = now,
                                  !.text = Strftime(now, clock.needs_tz)]
    /\ UNCHANGED clock_unchanged

NextClock ==
    \/ HourPasses
    \/ ClockProcess

SpecClock == InitClock /\ [][NextClock]_vars

\* ------------------------------------------------- one read of a tailed file
\* The line counts a configuration gives (config['lines']) and the files
\* read: up to MaxFileLines lines, the last one with or without a terminator
MaxLines == 3
MaxFileLines == 3

Terminated == {"x\n", "y\n"}

ReadData ==
    UNION {{body \o tl : body \in [1..(n - 1) -> Terminated],
                          tl \in {<<l>> : l \in Terminated \cup {"z"}}}
           : n \in 1..MaxFileLines} \cup {<<>>}

InitRead ==
    /\ app_config = _parse_config([shape |-> "absent", entries |-> <<>>,
                                   legacy |-> NoLegacy, fit |-> FALSE,
                                   moldura |-> "missing"])
    /\ plugins = <<>>
    /\ pc = "read"
    /\ idx = 1
    /\ init_result = "none"
    /\ kbd = "idle"
    /\ running = FALSE
    /\ paused = FALSE
    /\ frames = 0
    /\ last_run = NoRun
    /\ exit_path = "none"
    /\ reg_log = <<>>
    /\ cap = "none"
    /\ mgr = NewManager(DefaultKeys)
    /\ keyboard = IdleKeyboard
    /\ \E lines \in 0..MaxLines, following \in BOOLEAN, data \in ReadData :
          tail = [IdleTail EXCEPT !.plugin.lines = lines,
                                  !.plugin.following = following,
                                  !.file.data = data]
    /\ clock = IdleClock
    /\ cpu = IdleCpu
    /\ overlay = IdleOverlay
    /\ yaml = NoData

\* The first _read_file() of a plugin, made by initialize
FirstRead ==
    /\ pc = "read"
    /\ tail.pc = "new"
    /\ tail' = [tail EXCEPT !.pc = "ready",
                            !.plugin = _read_file(tail.plugin, tail.file)]
    /\ UNCHANGED tail_unchanged

NextRead == FirstRead

SpecRead == InitRead /\ [][NextRead]_vars

\* ------------------------------------------------------------ the CPU plugin
\* The update intervals a configuration gives (config.get('update_interval',
\* 2.0)) and the loads psutil.cpu_percent reports, as int(cpu)
CpuIntervals == {0, 1, 2}
Loads == {10, 90}

DueAtInterval(c) == c.now - c.last_check >= c.update_interval

\* time.time() - self.last_check > self.update_interval
Due(c) == c.now - c.last_check > c.update_interval

\* CPUPlugin.process_frame: nothing when hidden; a sample when one is due;
\* the cached text drawn
CpuProcessFrame(c, load) ==
    IF ~c.show THEN
        [c EXCEPT !.last = [NoCpuCall EXCEPT !.before = c.cpu_usage]]
    ELSE
        LET due == Due(c)
            usage == IF due THEN load ELSE c.cpu_usage
        IN  [c EXCEPT !.cpu_usage = usage,
                      !.last_check = IF due THEN c.now ELSE @,
                      !.sampled_at = IF due THEN c.now ELSE @,
                      !.drawn_once = TRUE,
                      !.last = [visible |-> TRUE, first |-> ~c.drawn_once,
                                sampled |-> due, prior |-> c.sampled_at > 0,
                                gap |-> c.now - c.sampled_at, drawn |-> usage,
                                before |-> c.cpu_usage]]

InitCpu ==
    /\ app_config = _parse_config([shape |-> "absent", entries |-> <<>>,
                                   legacy |-> NoLegacy, fit |-> FALSE,
                                   moldura |-> "missing"])
    /\ plugins = <<>>
    /\ pc = "cpu"
    /\ idx = 1
    /\ init_result = "none"
    /\ kbd = "idle"
    /\ running = FALSE
    /\ paused = FALSE
    /\ frames = 0
    /\ last_run = NoRun
    /\ exit_path = "none"
    /\ reg_log = <<>>
    /\ cap = "none"
    /\ mgr = NewManager(DefaultKeys)
    /\ keyboard = IdleKeyboard
    /\ tail = IdleTail
    /\ clock = IdleClock
    /\ \E interval \in CpuIntervals, show \in BOOLEAN :
          cpu = [IdleCpu EXCEPT !.update_interval = interval, !.show = show]
    /\ overlay = IdleOverlay
    /\ yaml = NoData

cpu_unchanged == <<run_vars, mgr, keyboard, tail, clock, overlay, yaml>>

\* A second passes on the wall clock
CpuTick ==
    /\ pc = "cpu"
    /\ cpu.now < IdleCpu.now + MaxTime
    /\ cpu' = [cpu EXCEPT !.now = @ + 1]
    /\ UNCHANGED cpu_unchanged

\* process_frame(frame, draw), psutil reporting some load
CpuProcess ==
    /\ pc = "cpu"
    /\ \E load \in Loads : cpu' = CpuProcessFrame(cpu, load)
    /\ UNCHANGED cpu_unchanged

\* handle_shortcut('toggle')
CpuToggle ==
    /\ pc = "cpu"
    /\ cpu' = [cpu EXCEPT !.show = ~@]
    /\ UNCHANGED cpu_unchanged

NextCpu ==
    \/ CpuTick
    \/ CpuProcess
    \/ CpuToggle

SpecCpu == InitCpu /\ [][NextCpu]_vars

\* -------------------------------------------------------- the overlay plugin
\* The alpha values of a loaded image (0..MaxAlpha) and the opacities a
\* configuration gives, in halves: 0.0, 0.5, 1.0 and 1.5
MaxAlpha == 4
Opacities == 0..3

\* Image objects of one process_frame call: objs[1] is self.overlay_image and
\* ref the object the local name overlay_copy refers to
AliasImage(image) == [objs |-> <<image>>, ref |-> 1]

\* self.overlay_image.copy(): a second object with the same pixels
CopyImage(image) == [objs |-> <<image, image>>, ref |-> 2]

\* alpha.point(lambda p: p * self.opacity) on the 8-bit alpha band
Point(alpha, opacity) == (alpha * opacity) \div 2

\* overlay_copy.putalpha(alpha): changes the object in place
PutAlpha(h, alpha) == [h EXCEPT !.objs[h.ref] = alpha]

\* OverlayPlugin.process_frame with a loaded image
OverlayProcessFrame(o) ==
    IF ~o.enabled THEN [o EXCEPT !.pasted = -1, !.calls = @ + 1]
    ELSE IF o.opacity < 2 THEN
        LET h == CopyImage(o.overlay_image)
            t == PutAlpha(h, Point(h.objs[h.ref], o.opacity))
        IN  [o EXCEPT !.overlay_image = t.objs[1], !.pasted = t.objs[t.ref],
                      !.calls = @ + 1]
    ELSE [o EXCEPT !.pasted = o.overlay_image, !.calls = @ + 1]

InitOverlay ==
    /\ app_config = _parse_config([shape |-> "absent", entries |-> <<>>,
                                   legacy |-> NoLegacy, fit |-> FALSE,
                                   moldura |-> "missing"])
    /\ plugins = <<>>
    /\ pc = "overlay"
    /\ idx = 1
    /\ init_result = "none"
    /\ kbd = "idle"
    /\ running = FALSE
    /\ paused = FALSE
    /\ frames = 0
    /\ last_run = NoRun
    /\ exit_path = "none"
    /\ reg_log = <<>>
    /\ cap = "none"
    /\ mgr = NewManager(DefaultKeys)
    /\ keyboard = IdleKeyboard
    /\ tail = IdleTail
    /\ clock = IdleClock
    /\ cpu = IdleCpu
    /\ \E image \in 0..MaxAlpha, opacity \in Opacities, enabled \in BOOLEAN :
          overlay = [IdleOverlay EXCEPT !.overlay_image = image, !.loaded = image,
                                        !.opacity = opacity, !.enabled = enabled]
    /\ yaml = NoData

overlay_unchanged == <<run_vars, mgr, keyboard, tail, clock, cpu, yaml>>

\* process_frame(frame, draw)
OverlayFrame ==
    /\ pc = "overlay"
    /\ overlay.calls < MaxFrames
    /\ overlay' = OverlayProcessFrame(overlay)
    /\ UNCHANGED overlay_unchanged

\* on_keypress with the key bound to 'toggle'
OverlayToggle ==
    /\ pc = "overlay"
    /\ overlay' = [overlay EXCEPT !.enabled = ~@]
    /\ UNCHANGED overlay_unchanged

NextOverlay ==
    \/ OverlayFrame
    \/ OverlayToggle

SpecOverlay == InitOverlay /\ [][NextOverlay]_vars

\* ----------------------------------------------- the configuration resolver
InitParse ==
    /\ app_config = _parse_config(NoData)
    /\ plugins = <<>>
    /\ pc = "parse"
    /\ idx = 1
    /\ init_result = "none"
    /\ kbd = "idle"
    /\ running = FALSE
    /\ paused = FALSE
    /\ frames = 0
    /\ last_run = NoRun
    /\ exit_path = "none"
    /\ reg_log = <<>>
    /\ cap = "none"
    /\ mgr = NewManager(DefaultKeys)
    /\ keyboard = IdleKeyboard
    /\ tail = IdleTail
    /\ clock = IdleClock
    /\ cpu = IdleCpu
    /\ overlay = IdleOverlay
    /\ yaml \in RawConfigs

\* AppConfig.from_yaml: config = cls._parse_config(yaml)
ParseConfig ==
    /\ pc = "parse"
    /\ app_config' = _parse_config(yaml)
    /\ pc' = "parsed"
    /\ UNCHANGED <<plugins, idx, init_result, kbd, running, paused, frames, last_run,
                   exit_path, reg_log, cap, comp_vars>>

NextParse == ParseConfig

SpecParse == InitParse /\ [][NextParse]_vars

\* ------------------------------------------------------- option resolution
\* An app_config object carrying legacy global attributes for the clock and
\* the cpu plugin: a position, a font size and a visibility flag, each
\* present or not
Attrs(position, font_size, show) ==
    LET names == (IF position # "absent" THEN {"clock_position", "cpu_position"}
                  ELSE {})
                 \cup (IF font_size # "absent"
                       THEN {"clock_font_size", "info_font_size"} ELSE {})
                 \cup (IF show # "absent" THEN {"show_clock", "show_cpu"} ELSE {})
    IN  [n \in names |->
            IF n \in {"clock_position", "cpu_position"} THEN position
            ELSE IF n \in {"clock_font_size", "info_font_size"} THEN font_size
            ELSE show]

AttrSets ==
    { Attrs(position, font_size, show) :
        position \in {"absent", "global"}, font_size \in {"absent", "global"},
        show \in {"absent", "true", "false"} }

\* The options of one plugin: each of position, font_size, show and
\* show_by_default given or not
ResolveOptions ==
    { [NoOptions EXCEPT !.position = position, !.font_size = font_size,
                        !.show = show, !.show_by_default = show_by_default] :
        position \in {"absent", "own"}, font_size \in {"absent", "own"},
        show \in {"absent", "true", "false"},
        show_by_default \in {"absent", "true", "false"} }

InitResolve ==
    /\ \E attrs \in AttrSets :
          app_config = [_parse_config(NoData) EXCEPT !.attrs = attrs]
    /\ plugins = <<>>
    /\ pc = "resolve"
    /\ idx = 1
    /\ init_result = "none"
    /\ kbd = "idle"
    /\ running = FALSE
    /\ paused = FALSE
    /\ frames = 0
    /\ last_run = NoRun
    /\ exit_path = "none"
    /\ reg_log = <<>>
    /\ cap = "none"
    /\ mgr = NewManager(DefaultKeys)
    /\ keyboard = IdleKeyboard
    /\ tail = IdleTail
    /\ clock = IdleClock
    /\ cpu = IdleCpu
    /\ overlay = IdleOverlay
    /\ yaml = NoData

\* A clock or cpu plugin constructed with some options, initialized with
\* the app_config object and registered
ResolveInitialize ==
    /\ pc = "resolve"
    /\ \E type \in {"clock", "cpu"}, config \in ResolveOptions :
          plugins' = register_plugin(
                         plugins,
                         PluginInitialize(NewPlugin(type, config), app_config).plugin,
                         NoneId)
    /\ pc' = "resolved"
    /\ UNCHANGED <<app_config, idx, init_result, kbd, running, paused, frames,
                   last_run, exit_path, reg_log, cap, comp_vars>>

NextResolve == ResolveInitialize

SpecResolve == InitResolve /\ [][NextResolve]_vars

\* ------------------------------------------------- the pipeline on its own
\* Registries for PluginManager.process_frame, by class and options in
\* registration order
PipeRegistries ==
    { << <<"crop", NoOptions>>, <<"crop", NoOptions>>, <<"clock", NoOptions>> >>,
      << <<"tail", [NoOptions EXCEPT !.file = "good"]>>, <<"clock", NoOptions>> >>,
      << <<"clock", NoOptions>>, <<"tail", [NoOptions EXCEPT !.file = "good"]>> >>,
      << <<"crop", NoOptions>>, <<"clock", NoOptions>>,
         <<"overlay", [NoOptions EXCEPT !.file = "good"]>> >>,
      << <<"tlp", NoOptions>>, <<"cpu", NoOptions>>, <<"clock", NoOptions>> >>,
      << <<"overlay", [NoOptions EXCEPT !.file = "good"]>>,
         <<"tail", [NoOptions EXCEPT !.file = "good"]>>, <<"cpu", NoOptions>> >> }

InitPipe ==
    /\ app_config = _parse_config(NoData)
    /\ \E classes \in PipeRegistries : plugins = RegisterAll(<<>>, classes)
    /\ pc = "pipe"
    /\ idx = 1
    /\ init_result = "none"
    /\ kbd = "idle"
    /\ running = FALSE
    /\ paused = FALSE
    /\ frames = 0
    /\ last_run = NoRun
    /\ exit_path = "none"
    /\ reg_log = <<>>
    /\ cap = "none"
    /\ mgr = NewManager(DefaultKeys)
    /\ keyboard = IdleKeyboard
    /\ tail = IdleTail
    /\ clock = IdleClock
    /\ cpu = IdleCpu
    /\ overlay = IdleOverlay
    /\ yaml = NoData

\* handle_shortcut('toggle') on one plugin before the frame arrives
PipeToggle ==
    /\ pc = "pipe"
    /\ \E j \in 1..Len(plugins) :
          plugins' = [plugins EXCEPT ![j].plugin = handle_shortcut(@, "toggle").plugin]
    /\ UNCHANGED <<app_config, pc, idx, init_result, kbd, running, paused, frames,
                   last_run, exit_path, reg_log, cap, comp_vars>>

\* PluginManager.process_frame(frame) on a frame of some size
PipeProcess ==
    /\ pc = "pipe"
    /\ \E size \in CamSizes : last_run' = RunPipeline(plugins, size)
    /\ frames' = frames + 1
    /\ pc' = "piped"
    /\ UNCHANGED <<app_config, plugins, idx, init_result, kbd, running, paused,
                   exit_path, reg_log, cap, comp_vars>>

NextPipe ==
    \/ PipeToggle
    \/ PipeProcess

SpecPipe == InitPipe /\ [][NextPipe]_vars

\* ------------------------------------------------------ the loop on its own
\* keyboard_shortcuts mappings: the defaults, and one key bound to both quit
\* and pause
PauseKeyTables == {DefaultKeys, [DefaultKeys EXCEPT !.pause = QuitKey]}

\* run() on entering the while loop, with one clock plugin toggled by 't'
InitPause ==
    /\ app_config = _parse_config(NoData)
    /\ plugins = RegisterAll(<<>>, << <<"clock", Shortcuts(ToggleT)>> >>)
    /\ pc = "loop"
    /\ idx = 1
    /\ init_result = "true"
    /\ kbd = "running"
    /\ running = TRUE
    /\ paused = FALSE
    /\ frames = 0
    /\ last_run = NoRun
    /\ exit_path = "none"
    /\ reg_log = <<>>
    /\ cap = "opened"
    /\ \E keys \in PauseKeyTables : mgr = NewManager(keys)
    /\ keyboard = IdleKeyboard
    /\ tail = IdleTail
    /\ clock = IdleClock
    /\ cpu = IdleCpu
    /\ overlay = IdleOverlay
    /\ yaml = NoData

\* The keys get_key delivers here ("": none buffered)
PauseKeyInputs == {"", QuitKey, PauseKey, "t"}

\* One iteration of the while loop under the bindings of the configuration
PauseLoopIteration ==
    /\ pc = "loop"
    /\ running
    /\ \E key \in PauseKeyInputs, ret \in BOOLEAN, size \in CamSizes :
          LoopStep(mgr.keys, key, ret, size)
    /\ UNCHANGED <<app_config, idx, init_result, kbd, running, reg_log>>
    /\ UNCHANGED <<cap, comp_vars>>

NextPause ==
    \/ PauseLoopIteration
    \/ Finally

SpecPause == InitPause /\ [][NextPause]_vars

\* ================================================================== claims
Instances == app_config.plugin_instances
DescriptorPath == Instances # <<>>
KnownIndices == {k \in 1..Len(Instances) : Instances[k].type \in PLUGIN_CLASSES}
Sources(reg) == [j \in 1..Len(reg) |-> reg[j].plugin.src]
Increasing(f) == \A j \in 1..Len(f), l \in 1..Len(f) : j < l => f[j] < f[l]
EntryOf(id) == CHOOSE e \in {plugins[j] : j \in 1..Len(plugins)} : e.id = id

LogAssigned(entry) == entry.after[Len(entry.after)]
InUse(entry) == {entry.before[j] : j \in 1..Len(entry.before)}

\* An id is stored as asked, or under the lowest free suffix _N, N >= 1
LowestSuffix(entry) ==
    \E n \in 1..(Len(entry.before) + 1) :
        /\ LogAssigned(entry) = Suffixed(entry.requested, n)
        /\ LogAssigned(entry) \notin InUse(entry)
        /\ \A m \in 1..(n - 1) : Suffixed(entry.requested, m) \in InUse(entry)

NothingOverwritten ==
    /\ Len(plugins) = Len(reg_log)
    /\ \A j \in 1..Len(plugins), l \in 1..Len(plugins) :
          j # l => plugins[j].id # plugins[l].id
    /\ \A k \in 1..Len(reg_log) :
          reg_log[k].after = Append(reg_log[k].before, LogAssigned(reg_log[k]))

\* C2 (as stated): ids are distinct, nothing is overwritten, the first plugin
\* requesting an id gets the bare id and a later one requesting it gets the
\* lowest free suffix.
C2_FirstRequestGetsBareId ==
    /\ NothingOverwritten
    /\ \A k \in 1..Len(reg_log) :
          IF \A j \in 1..(k - 1) : reg_log[j].requested # reg_log[k].requested
          THEN LogAssigned(reg_log[k]) = reg_log[k].requested
          ELSE LowestSuffix(reg_log[k])

\* C2 (amended): ids are distinct and nothing is overwritten; a plugin
\* requesting an id that is not in use at the time of the call gets the bare
\* id, and a plugin requesting an id that is in use (asked for before, or
\* generated as a suffixed id for another plugin) gets requested_id + '_N' for
\* the lowest N >= 1 for which that id is not in use.
C2_UnusedIdOrLowestSuffix ==
    /\ NothingOverwritten
    /\ \A k \in 1..Len(reg_log) :
          IF reg_log[k].requested \notin InUse(reg_log[k])
          THEN LogAssigned(reg_log[k]) = reg_log[k].requested
          ELSE LowestSuffix(reg_log[k])

\* C2 witness: a request that found its id and the suffix _1 in use and was
\* stored under _2
C2_Witness ==
    \E k \in 1..Len(reg_log) :
        /\ reg_log[k].requested \in InUse(reg_log[k])
        /\ LogAssigned(reg_log[k]) = Suffixed(reg_log[k].requested, 2)

IsCropCall(id) == EntryOf(id).plugin.name = "crop"
CropCalls(calls) == {j \in 1..Len(calls) : IsCropCall(calls[j])}

\* C3: in a process_frame call on a registry holding crop-type instances, crop
\* processing is applied exactly once, and before any other plugin.
C3_CropOnceAndFirst ==
    (frames > 0 /\ \E j \in 1..Len(plugins) : plugins[j].plugin.name = "crop") =>
        /\ Cardinality(CropCalls(last_run.calls)) = 1
        /\ IsCropCall(last_run.calls[1])

\* The flag that gates a plugin's own process_frame
Disabled(p) == IF p.name \in {"overlay", "crop"} THEN ~p.enabled ELSE ~p.show

\* C4: the process_frame of a disabled plugin returns the frame it was given,
\* unchanged, for every plugin type and every frame size.
C4_DisabledIsIdentity ==
    \A j \in 1..Len(plugins) : \A size \in CamSizes :
        Disabled(plugins[j].plugin) =>
            LET s == [Pipe(Frame(size)) EXCEPT !.draw = 1]
                t == PluginProcess(plugins[j], s)
            IN  t.cur = s.cur /\ t.objs = s.objs

\* C5: a plugin whose descriptor says enabled=false is not invoked by
\* PluginManager.process_frame (no key of the model toggles a plugin).
C5_DisabledDescriptorNotInvoked ==
    (frames > 0 /\ DescriptorPath) =>
        \A j \in 1..Len(last_run.calls) :
            Instances[EntryOf(last_run.calls[j]).plugin.src].enabled

\* C6: when the initialize of a plugin failed (raised or returned false),
\* initialize_plugins does not report success and the frame loop is not entered.
C6_InitFailureAbortsStartup ==
    (\E j \in 1..Len(plugins) : plugins[j].plugin.init_state \in {"raised", "false"}) =>
        /\ init_result # "true"
        /\ pc \notin {"kbd_start", "open_cam", "loop", "finally"}
        /\ frames = 0

UnknownIndices == {k \in 1..Len(Instances) : Instances[k].type \notin PLUGIN_CLASSES}

\* The descriptor at which initialize_plugins stopped has a known type and an
\* initialize that raises
StoppedAtRaisingPlugin ==
    /\ idx \in KnownIndices
    /\ PluginInitialize(NewPlugin(Instances[idx].type, Instances[idx].config),
                        app_config).outcome = "raised"

\* C7: a descriptor of an unknown type creates no registry entry and consumes
\* no id (a later descriptor whose id no registered plugin holds is stored
\* under that very id); the descriptors after it are still constructed,
\* initialized once and registered; and initialize_plugins fails only at a
\* type-valid descriptor whose initialize raises, so it returns success when
\* every type-valid descriptor initializes.
C7_UnknownTypeSkipped ==
    (DescriptorPath /\ UnknownIndices # {}) =>
        /\ \A j \in 1..Len(plugins) :
              /\ plugins[j].plugin.src \in KnownIndices
              /\ plugins[j].plugin.init_calls = 1
              /\ (\A l \in 1..(j - 1) :
                      plugins[l].id # Instances[plugins[j].plugin.src].id)
                  => plugins[j].id = Instances[plugins[j].plugin.src].id
        /\ {plugins[j].plugin.src : j \in 1..Len(plugins)}
              = {k \in KnownIndices : k < idx}
        /\ init_result = "true" => idx = Len(Instances) + 1
        /\ init_result = "false" => StoppedAtRaisingPlugin
        /\ init_result \in {"true", "false"} \/ pc = "init"

\* C7 witness: success on a list whose first descriptor has an unknown type
\* and asks for the id the second, known one asks for
C7_Witness ==
    /\ init_result = "true"
    /\ Len(Instances) = 2
    /\ Instances[1].type = "bogus" /\ Instances[1].id = Id("clock")
    /\ Instances[2].type = "clock" /\ Instances[2].id = Id("clock")
    /\ Len(plugins) = 1 /\ plugins[1].id = Id("clock")
    /\ plugins[1].plugin.init_state = "ok"

\* C8: after initialize_plugins returned success, every enabled descriptor of
\* one of the six transformer types has a registry entry.
C8_SixTypesRegistered ==
    (init_result = "true" /\ DescriptorPath) =>
        \A k \in 1..Len(Instances) :
            (Instances[k].type \in PluginExports /\ Instances[k].enabled) =>
                \E j \in 1..Len(plugins) : plugins[j].plugin.src = k

\* C9: every registered plugin had initialize called exactly once, and
\* process_frame is invoked only on a plugin whose initialize succeeded.
C9_InitializedBeforeProcess ==
    init_result = "true" =>
        /\ \A j \in 1..Len(plugins) : plugins[j].plugin.init_calls = 1
        /\ \A j \in 1..Len(last_run.calls) :
              EntryOf(last_run.calls[j]).plugin.init_state = "ok"

\* C10: however run() ended, every initialized plugin was cleaned up exactly
\* once and the keyboard listener is not left running.
C10_CleanupOnEveryExit ==
    (pc = "done" /\ exit_path \in {"quit", "read_fail", "interrupt", "no_camera",
                                   "init_failed"}) =>
        /\ \A j \in 1..Len(plugins) :
              plugins[j].plugin.init_calls >= 1 => plugins[j].plugin.cleanup_calls = 1
        /\ kbd # "running"

\* ------------------------------------------------------------------- C11
\* C11: PluginManager.on_keypress hands the key to every registered plugin
\* exactly once and in registration order, whether or not an earlier plugin
\* handled it and also when the key is the quit key; it returns the quit
\* signal exactly when the key is the quit binding, and then the filter
\* index is left as it was.
C11_EveryPluginThenQuit ==
    mgr.last.op = "on_keypress" =>
        /\ mgr.last.order = Ids(plugins)
        /\ Len(mgr.last.returned) = Len(plugins)
        /\ (mgr.last.result = "quit") <=> (mgr.last.key = mgr.keys.quit)
        /\ mgr.last.result = "quit" =>
               mgr.current_filter_index = mgr.last.index_before

\* The quit key, bound to next_filter too, reached two plugins that both
\* handled it while a filter was registered.
C11_Witness ==
    /\ mgr.last.op = "on_keypress"
    /\ mgr.last.result = "quit"
    /\ mgr.last.key = mgr.keys.next_filter
    /\ mgr.last.returned = <<TRUE, TRUE>>
    /\ mgr.filter_count = 2

\* ------------------------------------------------------------------- C12
\* The character the listener has read and not yet appended
InHand == IF keyboard.listener \in {"acquire", "append"} THEN <<keyboard.ch>> ELSE <<>>

\* C12: while the program runs, the keys get_key has returned, followed by
\* the keys still queued and the one the listener is about to append, are
\* exactly the keys the listener read, in the order it read them (none lost,
\* duplicated or reordered);
\* get_key returns None exactly when it finds the queue empty, and it is
\* never made to wait for a key.
C12_QueueIsFifo ==
    (pc = "keyboard" /\ keyboard.process = "alive") =>
        /\ keyboard.delivered \o keyboard.key_queue \o InHand = keyboard.read
        /\ (keyboard.returned = "") <=> keyboard.found_empty
        /\ keyboard.caller = "locked" => ENABLED GetKeyReturn

\* Two different keys were delivered while a third was queued, and the last
\* call, made on an empty queue, returned None.
C12_Witness ==
    /\ pc = "keyboard"
    /\ Len(keyboard.delivered) = 3
    /\ keyboard.delivered[1] # keyboard.delivered[2]
    /\ keyboard.calls = 4
    /\ keyboard.caller = "idle"
    /\ keyboard.returned = ""

\* ------------------------------------------------------------------- C18
\* C18: once the listener thread has terminated, by whatever path, the
\* terminal is back in the mode it had before the listener started: it is
\* never left in cbreak mode.
C18_TerminalRestored ==
    (pc = "keyboard" /\ keyboard.listener \in {"exited", "killed"}) =>
        keyboard.terminal = "cooked"

\* ------------------------------------------------------------------- C13
\* C13: every frame sent to the virtual camera has exactly the configured
\* output width and height, whatever the size of the captured frame, the
\* value of the fit flag and the size of the image the pipeline returned.
C13_SentFrameHasOutputSize ==
    frames > 0 => last_run.sent = OutSize

\* A frame was sent whose pipeline result was smaller than the output: the
\* capture was small, fit was off and no crop plugin resized it.
C13_Witness ==
    /\ frames > 0
    /\ ~app_config.fit
    /\ last_run.out.size # OutSize
    /\ Len(last_run.calls) > 0

\* ------------------------------------------------------------------- C14
\* The field a plugin's toggle flips: show for clock, cpu, tail and tlp,
\* enabled for the classes that keep the base handle_shortcut
Flipped(p) ==
    IF p.name \in {"clock", "cpu", "tail", "tlp"} THEN [p EXCEPT !.show = ~@]
    ELSE [p EXCEPT !.enabled = ~@]

\* C14: on every registered plugin, of every class and in every state, two
\* successive 'toggle' shortcuts leave the plugin as it was, each of the two
\* calls reports that it was handled, and one toggle changes the visibility
\* field and nothing else.
C14_ToggleIsInvolution ==
    pc = "api" =>
        \A j \in 1..Len(plugins) :
            LET p == plugins[j].plugin
                r1 == handle_shortcut(p, "toggle")
                r2 == handle_shortcut(r1.plugin, "toggle")
            IN  /\ r1.handled /\ r2.handled
                /\ r1.plugin = Flipped(p)
                /\ r1.plugin # p
                /\ r2.plugin = p

\* handle_shortcut('toggle') has just hidden a tail plugin that stands next
\* to a crop plugin toggled off
C14_Witness ==
    /\ pc = "api"
    /\ mgr.last.op = "handle_shortcut"
    /\ mgr.last.key = "toggle"
    /\ mgr.last.result = "handled"
    /\ Len(plugins) = 2
    /\ plugins[mgr.last.target].plugin.name = "tail"
    /\ ~plugins[mgr.last.target].plugin.show
    /\ \E j \in 1..2 : plugins[j].plugin.name = "crop" /\ ~plugins[j].plugin.enabled

\* ------------------------------------------------------------------- C15
\* The lines a read of the file as it stands would cache
Fresh == Stripped(KeptLines(tail.file.data, tail.plugin.lines, tail.plugin.following))

\* C15 (as stated): when the file was rewritten between two update() calls
\* and is there to be read, the cached lines after the second call are those
\* of the new content if the calls are more than update_interval apart, and
\* are those cached after the first call if they are less than
\* update_interval apart.
C15_BetweenTwoCalls ==
    (pc = "tail" /\ tail.calls = 2 /\ tail.last.rewritten /\ tail.last.usable
       /\ ~tail.rewritten /\ tail.file.exists) =>
        /\ tail.last.gap > UpdateInterval => tail.plugin.content = Fresh
        /\ tail.last.gap < UpdateInterval => tail.plugin.content = tail.last.before

\* C15 (amended): an update() call made at least update_interval after the
\* last performed read (by initialize or by an earlier update), on a file
\* that is there, readable and whose size or modification time differs from
\* the cached ones, leaves the lines of the file's current content cached; an
\* update() call made less than update_interval after the last performed
\* read leaves the cached lines as they were, whatever happened to the file.
C15_SinceLastRead ==
    (pc = "tail" /\ tail.calls > 0) =>
        /\ (tail.last.since >= UpdateInterval /\ tail.last.usable
              /\ tail.last.stat_differs /\ ~tail.rewritten /\ tail.file.exists) =>
               tail.plugin.content = Fresh
        /\ tail.last.since < UpdateInterval =>
               tail.plugin.content = tail.last.before

\* A second call, close to a first one that was throttled, read the file
\* rewritten between the two
C15_Witness ==
    /\ pc = "tail"
    /\ tail.calls = 2
    /\ tail.last.gap < UpdateInterval
    /\ tail.last.since >= UpdateInterval
    /\ tail.last.rewritten /\ tail.last.stat_differs /\ tail.last.usable
    /\ tail.plugin.content # tail.last.before
    /\ tail.plugin.content = Fresh

\* ------------------------------------------------------------------- C16
\* A level value that names none of RED, AMBER, GREEN, CLEAR in any casing
Unrecognized(level) ==
    level.kind # "str" \/ level.text \notin
        {"RED", "red", "AMBER", "Amber", "GREEN", "green", "CLEAR", "clear"}

\* C16: a tlp plugin configured with an unrecognized default level starts at
\* CLEAR, and a set_tlp_level call with an unrecognized level, string or
\* not, returns normally and leaves the level CLEAR.
C16_UnrecognizedLevelIsClear ==
    pc = "api" =>
        /\ mgr.last.op = "none" =>
               \A j \in 1..Len(plugins) :
                   LET p == plugins[j].plugin
                   IN  (p.name = "tlp" /\ p.config.default_tlp # Absent
                          /\ Unrecognized(p.config.default_tlp)) =>
                           (p.init_state = "ok" /\ p.tlp_level = "CLEAR")
        /\ (mgr.last.op = "set_tlp_level" /\ Unrecognized(mgr.last.level)) =>
               /\ plugins[mgr.last.target].plugin.tlp_level = "CLEAR"
               /\ mgr.last.result \in {"true", "false"}

\* A value that is not a string was set on a plugin whose level was RED, on
\* a registry that holds a plugin configured with an unrecognized default
C16_Witness ==
    /\ pc = "api"
    /\ mgr.last.op = "set_tlp_level"
    /\ mgr.last.level = NonStr("5")
    /\ mgr.last.key = "RED"
    /\ mgr.last.result = "true"
    /\ \E j \in 1..Len(plugins) : plugins[j].plugin.config.default_tlp = Str("bogus")

\* ------------------------------------------------------------------- C17
\* C17: after PluginManager.cleanup, cleanup has been called on every
\* registered plugin, also on those registered after a plugin whose cleanup
\* raised.
C17_CleanupReachesEveryPlugin ==
    pc = "cleaned" =>
        \A j \in 1..Len(plugins) : plugins[j].plugin.cleanup_calls = 1

\* ------------------------------------------------------------------- C19
\* An overlay plugin whose initialize found no image file
Unloaded(e) ==
    e.plugin.name = "overlay" /\ e.plugin.init_state = "ok" /\ ~e.plugin.overlay_image

\* The registry without those plugins
WithoutUnloaded == SelectSeq(plugins, LAMBDA e : ~Unloaded(e))

FrameOut(reg, frame) == LET s == process_frame(reg, frame) IN s.objs[s.cur]

\* C19: an overlay plugin whose image file was missing at initialization
\* does not fail startup and is a no-op: for every input frame the pipeline
\* returns the image it returns without that plugin, and so did the last
\* frame processed.
C19_MissingOverlayIsNoOp ==
    (pc \in {"loop", "finally", "done"} /\ init_result = "true") =>
        /\ \A size \in CamSizes :
              /\ RunPipeline(plugins, size).out = RunPipeline(WithoutUnloaded, size).out
              /\ RunPipeline(plugins, size).sent = RunPipeline(WithoutUnloaded, size).sent
        /\ frames > 0 => last_run.out = FrameOut(WithoutUnloaded, last_run.inp)

\* A frame went through an enabled overlay without image and then through a
\* second plugin, which drew on it
C19_Witness ==
    /\ frames > 0
    /\ Len(plugins) = 2
    /\ Unloaded(plugins[1]) /\ plugins[1].plugin.enabled
    /\ last_run.calls = Ids(plugins)
    /\ last_run.out.marks # <<>>

\* ------------------------------------------------------------------- C20
\* The datetime the resolution rules give for the instant of the last call
ResolvedTime ==
    CASE clock.timezone = "" ->
             IF clock.needs_tz THEN NowIn("local", clock.drawn_at)
             ELSE NowNaive(clock.drawn_at)
      [] clock.timezone \in {"local", "Local"} -> NowIn("local", clock.drawn_at)
      [] clock.timezone \in {"UTC", "Asia/Tokyo"} -> NowIn(clock.timezone, clock.drawn_at)
      [] OTHER -> NowNaive(clock.drawn_at)

\* C20: whatever the timezone option and the format, the time the clock has
\* drawn is the one of the resolution rules: naive local time without a
\* timezone (the local zone attached when the format has zone directives),
\* the local zone for "local", the time in the zone for UTC and for a named
\* zone, naive local time for an unrecognized name.
C20_TimeInConfiguredZone ==
    (pc = "clock" /\ clock.rendered) =>
        /\ clock.now = ResolvedTime
        /\ clock.text.hour = ResolvedTime.hour

\* ------------------------------------------------------------------- C21
\* C21: a process_frame call of the CPU plugin that samples after an earlier
\* sampling comes more than update_interval after it; a call that finds the
\* plugin shown and does not sample draws the cached value and leaves it as
\* it was; the first call that finds the plugin shown samples; a call that
\* finds it hidden neither samples nor draws.
C21_SamplesThrottled ==
    pc = "cpu" =>
        LET l == cpu.last
        IN  /\ (l.sampled /\ l.prior) => l.gap > cpu.update_interval
            /\ (l.visible /\ ~l.sampled) =>
                   l.drawn = l.before /\ cpu.cpu_usage = l.before
            /\ (l.visible /\ l.first) => l.sampled
            /\ l.sampled => l.visible /\ l.drawn = cpu.cpu_usage
            /\ ~l.visible => l.drawn = -1 /\ cpu.cpu_usage = l.before

\* A second sampling, made exactly one tick after the interval ended, that
\* replaced the value cached by the first
C21_Witness ==
    /\ pc = "cpu"
    /\ cpu.last.sampled
    /\ cpu.last.prior
    /\ cpu.last.gap = cpu.update_interval + 1
    /\ cpu.last.before # 0
    /\ cpu.cpu_usage # cpu.last.before

\* ------------------------------------------------------------------- C22
Min(a, b) == IF a < b THEN a ELSE b

\* The text of a line of the file, without its terminator
Text(line) == IF line \in Terminated THEN Rstrip(line) ELSE line

\* The last (following) or the first m lines of the file, in file order
Ending(data, m) == [i \in 1..m |-> Text(data[Len(data) - m + i])]
Beginning(data, m) == [i \in 1..m |-> Text(data[i])]

\* C22: after a successful read of a file with L lines by a plugin configured
\* with N lines (N >= 0), the cached content is the last min(N, L) lines in
\* follow mode and the first min(N, L) lines otherwise, in file order and
\* without terminators, and it never holds more than N lines.
C22_CachedLines ==
    (pc = "read" /\ tail.pc = "ready") =>
        LET data == tail.file.data
            m == Min(tail.plugin.lines, Len(data))
        IN  /\ tail.plugin.content =
                   IF tail.plugin.following THEN Ending(data, m)
                   ELSE Beginning(data, m)
            /\ Len(tail.plugin.content) <= tail.plugin.lines

\* ------------------------------------------------------------------- C23
\* C23: the filter index is always at least 0 and below max(1, number of
\* filter plugins); an on_keypress call with the next-filter key moves it up
\* by one and with the prev-filter key down by one, wrapping round at the
\* ends (prev from 0 gives count - 1), and reports the key handled; with no
\* filter plugin both keys leave the index as it was and the call reports
\* what the plugins reported (not handled when none of them took the key).
\* The quit key returns before the filter keys are looked at.
C23_FilterIndexInRange ==
    pc = "api" =>
        LET l == mgr.last
            index == mgr.current_filter_index
            n == l.filters
            by_plugin == \E k \in 1..Len(l.returned) : l.returned[k]
        IN  /\ 0 <= index
            /\ index < (IF mgr.filter_count = 0 THEN 1 ELSE mgr.filter_count)
            /\ (l.op = "on_keypress" /\ l.key # mgr.keys.quit) =>
                   /\ (l.key = mgr.keys.next_filter /\ n > 0) =>
                          /\ index = IF l.index_before = n - 1 THEN 0
                                     ELSE l.index_before + 1
                          /\ l.result = "handled"
                   /\ (l.key = mgr.keys.prev_filter /\ n > 0) =>
                          /\ index = IF l.index_before = 0 THEN n - 1
                                     ELSE l.index_before - 1
                          /\ l.result = "handled"
                   /\ (l.key \in {mgr.keys.next_filter, mgr.keys.prev_filter}
                          /\ n = 0) =>
                          /\ index = l.index_before
                          /\ l.result = IF by_plugin THEN "handled"
                                        ELSE "not_handled"

\* The prev-filter key pressed at index 0 with two filter plugins: index 1
C23_Witness ==
    /\ pc = "api"
    /\ mgr.last.op = "on_keypress"
    /\ mgr.last.key = mgr.keys.prev_filter
    /\ mgr.last.filters = MaxFilters
    /\ mgr.last.index_before = 0
    /\ mgr.current_filter_index = MaxFilters - 1

\* ------------------------------------------------------------------- C24
\* C24: when the configuration resolves no plugin descriptor, whatever the
\* form of its plugins section, initialize_plugins returns True without
\* raising, having registered exactly clock, cpu and overlay, in that order
\* and under those ids, and initialized each of them once.
C24_LegacyFallback ==
    (init_result # "none" /\ ~DescriptorPath) =>
        /\ init_result = "true"
        /\ Ids(plugins) = <<Id("clock"), Id("cpu"), Id("overlay")>>
        /\ \A j \in 1..Len(plugins) :
              /\ plugins[j].plugin.name = LegacyTypes[j]
              /\ plugins[j].plugin.init_calls = 1

\* ------------------------------------------------------------------- C25
\* A step made by PluginManager.on_keypress
KeypressStep ==
    /\ pc = "api"
    /\ mgr'.last.op = "on_keypress"
    /\ mgr'.filter_count = mgr.filter_count

\* C25: when a key is dispatched, on_keypress of every registered plugin
\* returns what the default Plugin.on_keypress returns and leaves the plugin
\* in the state the default leaves it in: the first action of the shortcut
\* table bound to the key goes to handle_shortcut, whose result is returned,
\* no other action is dispatched, and a key bound to no action returns
\* false and changes nothing.
C25_OnKeypressIsDefault ==
    [][KeypressStep =>
          \A j \in 1..Len(plugins) :
              LET p == plugins[j].plugin
                  d == BaseOnKeypress(p, p.shortcuts, mgr'.last.key)
              IN  /\ plugins'[j].plugin = d.plugin
                  /\ mgr'.last.returned[j] = d.handled]_vars

\* ------------------------------------------------------------------- C26
NotCrop(e) == e.plugin.name # "crop"
EnabledNotCrop(e) == e.plugin.enabled /\ NotCrop(e)
CallNotCrop(id) == NotCrop(EntryOf(id))

\* C26: a process_frame call of the manager invokes the enabled plugins that
\* are not crop plugins each exactly once and in registration order, one
\* after the other: every call is given the image that the call before it
\* returned, the first one the image the manager was given.
C26_InOrderEachOnce ==
    frames > 0 =>
        LET enabled == SelectSeq(plugins, EnabledNotCrop)
            io == last_run.io
        IN  /\ SelectSeq(last_run.calls, CallNotCrop) = Ids(enabled)
            /\ Len(io) = Len(last_run.calls)
            /\ \A k \in 1..Len(io) :
                  io[k][1] = IF k = 1 THEN 1 ELSE io[k - 1][2]

\* Three plugins invoked, none of them a crop plugin
C26_Witness ==
    /\ frames > 0
    /\ Len(SelectSeq(last_run.calls, CallNotCrop)) = 3
    /\ last_run.out.marks # <<>>

\* ------------------------------------------------------------------- C27
\* run() is over and its finally block has run: the camera is released, the
\* listener stopped and every plugin cleaned up once
CleanedUp ==
    /\ cap = "released"
    /\ kbd = "stopped"
    /\ ~running
    /\ \A j \in 1..Len(plugins) : plugins[j].plugin.cleanup_calls = 1

\* C27: once a cap.read() has failed the loop is left for the finally block
\* and is not entered again, no frame is processed or published after the
\* failure, and when run() is over the camera has been released, the
\* listener stopped and the plugins cleaned up.
C27_ReadFailureEndsLoop ==
    /\ [](~last_run.ret =>
            /\ exit_path = "read_fail"
            /\ pc \in {"finally", "done"}
            /\ pc = "done" => CleanedUp)
    /\ [][~last_run.ret => (frames' = frames /\ last_run' = last_run)]_vars

\* A capture that failed after a frame had been published, run() over
C27_Witness ==
    /\ ~last_run.ret
    /\ pc = "done"
    /\ frames > 0
    /\ Len(plugins) > 0
    /\ CleanedUp

\* ------------------------------------------------------------------- C28
\* C28: at most one read(1) of the listener returns after stop() cleared the
\* running flag; once it has returned the listener is never in a read again,
\* and, the process staying alive, it goes on to exit with the terminal
\* settings it saved put back.
C28_ListenerExitsAfterStop ==
    /\ [](pc = "keyboard" =>
            /\ keyboard.late_reads <= 1
            /\ keyboard.late_reads = 1 => keyboard.listener # "read")
    /\ (pc = "keyboard" /\ keyboard.late_reads = 1)
          ~> \/ keyboard.process = "exited"
             \/ /\ keyboard.listener = "exited"
                /\ keyboard.terminal = "cooked"

\* stop() was called while the listener was in read(1); the read returned a
\* character, which was queued, and the listener has exited
C28_Witness ==
    /\ pc = "keyboard"
    /\ keyboard.late_reads = 1
    /\ keyboard.process = "alive"
    /\ keyboard.listener = "exited"
    /\ keyboard.terminal = "cooked"
    /\ keyboard.key_queue # <<>>

\* ------------------------------------------------------------------- C29
HoldsLock(k) ==
    IF k.listener = "append" THEN "listener"
    ELSE IF k.caller = "locked" THEN "caller"
    ELSE "free"

\* C29: while the process is alive the lock is held by the listener exactly
\* while it appends and by get_key exactly while it tests and pops the
\* queue, so the listener does not hold it while it is in read(1) and a
\* get_key call that waits for it waits for one append; the queue changes
\* only in a step of the thread that holds the lock.
C29_QueueUnderLock ==
    /\ []((pc = "keyboard" /\ keyboard.process = "alive") =>
            /\ keyboard.lock = HoldsLock(keyboard)
            /\ ~(keyboard.listener = "append" /\ keyboard.caller = "locked")
            /\ keyboard.listener = "read" => keyboard.lock # "listener")
    /\ [][keyboard'.key_queue # keyboard.key_queue =>
              /\ keyboard.lock # "free"
              /\ keyboard'.lock = "free"]_vars

\* get_key waits for the lock while the listener appends a key
C29_Witness ==
    /\ pc = "keyboard"
    /\ keyboard.process = "alive"
    /\ keyboard.caller = "acquire"
    /\ keyboard.lock = "listener"
    /\ keyboard.listener = "append"

\* ------------------------------------------------------------------- C30
\* C30: after any number of process_frame calls the cached overlay image is
\* the image that was loaded, for opacities below, equal to and above 1.0;
\* what a call pastes is the cached image with the opacity applied when the
\* opacity is below 1.0, and the cached image itself otherwise.
C30_CachedImageKept ==
    pc = "overlay" =>
        /\ overlay.overlay_image = overlay.loaded
        /\ overlay.pasted \in
              {-1, IF overlay.opacity < 2
                   THEN (overlay.loaded * overlay.opacity) \div 2
                   ELSE overlay.loaded}

\* Two frames processed, the second pasted at half the alpha of the cached
\* image
C30_Witness ==
    /\ pc = "overlay"
    /\ overlay.calls >= 2
    /\ overlay.opacity = 1
    /\ overlay.loaded > 1
    /\ overlay.pasted >= 0
    /\ overlay.pasted < overlay.overlay_image

\* ------------------------------------------------------------------- C31
HasType(e) == e.type # ""

\* The entries of the plugins list that have a type, in list order
Typed == SelectSeq(yaml.entries, HasType)

\* C31: the descriptors resolved from a plugins list are, one for one and in
\* list order, those of the entries that have a type: the type, the name as
\* id (the type when the entry has no name), enabled unless the entry says
\* false, and as options the entry without name, type and enabled. Entries
\* without a type give no descriptor, wherever they stand in the list.
C31_DescriptorsOfTypedEntries ==
    (pc = "parsed" /\ yaml.shape = "list") =>
        /\ Len(Instances) = Len(Typed)
        /\ \A k \in 1..Len(Typed) :
              LET e == Typed[k]
                  d == Instances[k]
              IN  /\ d.type = e.type
                  /\ d.id = IF e.has_name THEN e.name ELSE Id(e.type)
                  /\ d.enabled = (e.options.enabled # "false")
                  /\ d.config.enabled = "absent"
                  /\ \A f \in DOMAIN e.options \ {"enabled"} :
                        d.config[f] = e.options[f]

\* An entry without a type followed by a named entry, which is resolved
C31_Witness ==
    /\ pc = "parsed"
    /\ Len(yaml.entries) = 2
    /\ ~HasType(yaml.entries[1])
    /\ yaml.entries[2].has_name
    /\ Len(Instances) = 1
    /\ Instances[1].id = yaml.entries[2].name

\* ------------------------------------------------------------------- C32
\* The legacy global attribute of app_config that a clock or cpu plugin
\* falls back to for an option ("absent" when app_config has none)
GlobalOf(p, option) ==
    LET attr == CASE option = "position" ->
                         IF p.name = "clock" THEN "clock_position" ELSE "cpu_position"
                  [] option = "font_size" ->
                         IF p.name = "clock" THEN "clock_font_size"
                         ELSE "info_font_size"
                  [] OTHER -> IF p.name = "clock" THEN "show_clock" ELSE "show_cpu"
    IN  IF attr \in DOMAIN app_config.attrs THEN app_config.attrs[attr] ELSE "absent"

\* The first of three values that is present
FirstPresent(own, global, default) ==
    IF own # "absent" THEN own ELSE IF global # "absent" THEN global ELSE default

\* C32: after initialize the position, the font size and the visibility of a
\* clock or cpu plugin are the plugin's own option when it is given, else the
\* legacy attribute of the global configuration when that is present, else
\* the hard-coded default (for the visibility the own options are show and
\* then show_by_default, and the default is visible).
C32_ThreeTierPrecedence ==
    pc = "resolved" =>
        LET p == plugins[1].plugin
            c == p.config
        IN  /\ p.position = FirstPresent(c.position, GlobalOf(p, "position"), "default")
            /\ p.font_size =
                   FirstPresent(c.font_size, GlobalOf(p, "font_size"), "default")
            /\ p.show = (FirstPresent(FirstPresent(c.show, c.show_by_default, "absent"),
                                      GlobalOf(p, "show"), "true") = "true")

\* A clock whose own position wins over the global one, whose font size
\* comes from the global attribute and which the global flag hides
C32_Witness ==
    /\ pc = "resolved"
    /\ plugins[1].plugin.name = "clock"
    /\ plugins[1].plugin.config.position = "own"
    /\ GlobalOf(plugins[1].plugin, "position") = "global"
    /\ plugins[1].plugin.position = "own"
    /\ plugins[1].plugin.font_size = "global"
    /\ plugins[1].plugin.config.show = "absent"
    /\ plugins[1].plugin.config.show_by_default = "absent"
    /\ GlobalOf(plugins[1].plugin, "show") = "false"
    /\ ~plugins[1].plugin.show

\* ------------------------------------------------------------------- C33
\* The spellings of the level actions a caller passes, with their level
LevelOfAction ==
    [a \in {"red", "RED", "Amber", "amber", "green", "clear"} |->
        CASE a \in {"red", "RED"} -> "RED"
          [] a \in {"Amber", "amber"} -> "AMBER"
          [] a = "green" -> "GREEN"
          [] OTHER -> "CLEAR"]

\* The key is bound to a level action in the plugin's shortcut table
BoundToLevel(p, key) ==
    \E k \in 1..Len(p.shortcuts) :
        p.shortcuts[k][2] = key /\ p.shortcuts[k][1] \in DOMAIN LevelOfAction

\* C33: the level of every tlp plugin is one of RED, AMBER, GREEN, CLEAR; a
\* handle_shortcut call with a level action in any letter case sets that
\* level, one with toggle or an unrecognized action leaves every level
\* unchanged, and a level changes only in a handle_shortcut call with a level
\* action, an on_keypress call with a key bound to a level action, or a
\* set_tlp_level call.
C33_LevelOneOfFour ==
    /\ [](\A j \in 1..Len(plugins) :
             plugins[j].plugin.name = "tlp" => plugins[j].plugin.tlp_level \in TLPLevels)
    /\ [][\A j \in 1..Len(plugins) :
            LET p == plugins[j].plugin
                q == plugins'[j].plugin
                call == mgr'.last
            IN  /\ (/\ call.op = "handle_shortcut"
                    /\ call.target = j
                    /\ p.name = "tlp"
                    /\ call.key \in DOMAIN LevelOfAction)
                      => q.tlp_level = LevelOfAction[call.key] /\ call.result = "handled"
                /\ (call.op = "handle_shortcut" /\ call.key \notin DOMAIN LevelOfAction)
                      => q.tlp_level = p.tlp_level
                /\ (q.tlp_level # p.tlp_level)
                      => \/ call.op = "set_tlp_level" /\ call.target = j
                         \/ /\ call.op = "handle_shortcut"
                            /\ call.target = j
                            /\ call.key \in DOMAIN LevelOfAction
                         \/ call.op = "on_keypress" /\ BoundToLevel(p, call.key)]_vars

\* A tlp plugin at AMBER after the action Amber was handled
C33_Witness ==
    /\ mgr.last.op = "handle_shortcut"
    /\ mgr.last.key = "Amber"
    /\ mgr.last.result = "handled"
    /\ plugins[mgr.last.target].plugin.name = "tlp"
    /\ plugins[mgr.last.target].plugin.tlp_level = "AMBER"

\* ------------------------------------------------------------------- C34
\* C34: a set_tlp_level call with an unrecognized level string returns
\* false, whatever level the plugin had.
C34_InvalidLevelReturnsFalse ==
    (/\ mgr.last.op = "set_tlp_level"
     /\ mgr.last.level.kind = "str"
     /\ Unrecognized(mgr.last.level))
        => mgr.last.result = "false"

\* ------------------------------------------------------------------- C35
\* The plugin draws when its process_frame is called: clock, cpu, tlp and
\* tail when shown, the overlay when enabled with an image loaded
Draws(p) ==
    CASE p.name \in {"clock", "cpu", "tlp", "tail"} -> p.show
      [] p.name = "overlay" -> p.enabled /\ p.overlay_image
      [] OTHER -> FALSE

\* C35: the drawing of every plugin invoked in a process_frame call of the
\* manager is on the image the call returns, also when a plugin of the chain
\* returned a new image.
C35_DrawingsOnReturnedFrame ==
    pc = "piped" =>
        \A k \in 1..Len(last_run.calls) :
            LET p == EntryOf(last_run.calls[k]).plugin
            IN  Draws(p) =>
                    \E m \in 1..Len(last_run.out.marks) : last_run.out.marks[m] = p.name

\* ------------------------------------------------------------------- C36
\* C36: in every iteration of the loop the key polled is dispatched to the
\* plugins, paused or not; the quit key ends the loop, also while paused and
\* also when it is the pause key as well; the pause key otherwise flips the
\* paused flag and no other key changes it; an iteration that ends paused
\* captures, processes and publishes nothing, and one that ends not paused
\* after a successful capture publishes a frame.
C36_PauseAndResume ==
    [][\A key \in PauseKeyInputs, ret \in BOOLEAN, size \in CamSizes :
          (pc = "loop" /\ running /\ LoopStep(mgr.keys, key, ret, size)) =>
              /\ key # "" =>
                     plugins' = on_keypress(plugins, mgr.keys, 0, 0, key).plugins
              /\ key = mgr.keys.quit =>
                     pc' = "finally" /\ exit_path' = "quit" /\ frames' = frames
              /\ (key = mgr.keys.pause /\ key # mgr.keys.quit) => paused' = ~paused
              /\ key \notin {mgr.keys.pause, mgr.keys.quit} => paused' = paused
              /\ (paused' /\ key # mgr.keys.quit) =>
                     pc' = "loop" /\ frames' = frames /\ last_run' = last_run
              /\ (~paused' /\ key # mgr.keys.quit /\ ret) =>
                     pc' = "loop" /\ frames' = frames + 1]_vars

\* The loop was left by the quit key while paused, after a frame had been
\* published
C36_Witness ==
    /\ pc = "finally"
    /\ exit_path = "quit"
    /\ paused
    /\ frames > 0

\* ------------------------------------------------------------------- C37
Placeholders == {NotFound, ReadError}

\* C37: an update() call that performs a read while the file exists and is
\* readable, made when the cache holds a placeholder line (file not found,
\* read error), leaves the cache holding the lines of the file, whatever the
\* size and modification time of the file.
C37_PlaceholderReplaced ==
    [][(/\ Update
        /\ tail.now - tail.plugin.last_update >= UpdateInterval
        /\ tail.file.exists /\ tail.file.readable
        /\ tail.plugin.content \in Placeholders)
         => /\ tail'.plugin.content \notin Placeholders
            /\ tail'.plugin.content =
                   Stripped(KeptLines(tail.file.data, tail.plugin.lines,
                                      tail.plugin.following))]_vars

\* ------------------------------------------------------------------- C38
\* The lines a read of the file as it is now caches
LinesOfFile ==
    Stripped(KeptLines(tail.file.data, tail.plugin.lines, tail.plugin.following))

\* C38: when the file of a visible tail plugin driven through process_frame
\* has changed, with more than update_interval of time still to pass, a later
\* frame is drawn with the lines of the new content.
C38_NewContentDrawn ==
    (tail.rewritten /\ tail.now + UpdateInterval < MaxTime)
        ~> (tail.calls > 0 /\ tail.drawn = LinesOfFile)

\* ------------------------------------------------------------------- C39
\* The key is in no plugin's shortcut table and is none of the global bindings
Unbound(key) ==
    /\ key \notin {mgr.keys.quit, mgr.keys.pause, mgr.keys.next_filter,
                    mgr.keys.prev_filter}
    /\ \A j \in 1..Len(plugins) :
          \A k \in 1..Len(plugins[j].plugin.shortcuts) :
              plugins[j].plugin.shortcuts[k][2] # key

\* C39: an on_keypress call of the manager returns handled exactly when the
\* key is not the quit binding and a plugin's on_keypress returned true or
\* the key is a filter binding while filters are registered; for a key in no
\* shortcut table and no global binding it returns not-handled and leaves
\* the plugins and the filter index as they were.
C39_HandledIffConsumed ==
    [][KeypressStep =>
          LET call == mgr'.last
              consumed == \E k \in 1..Len(call.returned) : call.returned[k]
              rotated == /\ mgr.filter_count > 0
                         /\ call.key \in {mgr.keys.next_filter, mgr.keys.prev_filter}
          IN  /\ (call.result = "handled")
                     <=> (call.key # mgr.keys.quit /\ (consumed \/ rotated))
              /\ Len(call.returned) = Len(plugins)
              /\ Unbound(call.key) =>
                     /\ call.result = "not_handled"
                     /\ plugins' = plugins
                     /\ mgr'.current_filter_index = mgr.current_filter_index]_vars

\* A key bound nowhere was not handled, and a plugin of the registry has a
\* shortcut table
C39_Witness ==
    /\ mgr.last.op = "on_keypress"
    /\ Unbound(mgr.last.key)
    /\ mgr.last.result = "not_handled"
    /\ mgr.filter_count > 0
    /\ \E j \in 1..Len(plugins) : plugins[j].plugin.shortcuts # <<>>

====
